---- MODULE Spec2Model ----
(***************************************************************************)
(* Model of the Firestore MCP tool execution engine                        *)
(* (src/src/lib/firestore-tools.ts): value sanitizer, aggregation          *)
(* calculator, schema inferencer and the FirestoreToolExecutor.            *)
(***************************************************************************)
EXTENDS Integers, Sequences, FiniteSets, TLC

VARIABLES
    stDocs,     \* collectNumericStats: the docs argument
    stField,    \* collectNumericStats: the field argument
    stOut,      \* collectNumericStats: the returned NumericStats
    stPc        \* "ready" before the call, "done" after it

statsVars == <<stDocs, stField, stOut, stPc>>

VARIABLES
    saHeap,     \* sanitizeFirestoreValue: the object graph holding the argument
    saRoot,     \* sanitizeFirestoreValue: the argument (a cell)
    saOut,      \* the outcome: the returned value, or the error thrown
    saPc        \* "ready" before the call, "done" after it

sanVars == <<saHeap, saRoot, saOut, saPc>>

VARIABLES
    scDocs,     \* inspectCollectionSchema: snapshot.docs, the sampled documents
    scIdx,      \* number of documents the forEach loop has processed
    scAcc       \* the accumulators schema and examples, and the error thrown

schemaVars == <<scDocs, scIdx, scAcc>>

VARIABLES
    firestore,  \* the database behind the executor: collection id -> documents
    call,       \* the invocation of execute in progress, and its result
    dbOps       \* the database operations that invocation has issued, in order

execVars == <<firestore, call, dbOps>>

VARIABLES
    pool        \* concurrent invocations of execute: slot -> its run so far

VARIABLES
    sessions,   \* the SSE server's session map: the session ids it holds
    transports, \* the SSE transports created so far: session id -> its state
    closing,    \* DELETE handlers awaiting transport.close(): their session ids
    deleted,    \* the session ids a DELETE has removed from the map
    reply       \* the last answer of the SSE server to a POST or DELETE

sseVars == <<sessions, transports, closing, deleted, reply>>

VARIABLES
    env,             \* process.env.FIREBASE_SERVICE_ACCOUNT
    cachedFirestore, \* the cache of the client module: null or a handle
    constructed,     \* the handles new Firestore(...) has produced, in order
    got              \* the outcome of the last call of getFirestore

clientVars == <<env, cachedFirestore, constructed, got>>

VARIABLES
    serverReady, \* the promise of the one-time connect: pending, resolved, rejected
    requests     \* the MCP requests of the Streamable HTTP entry point: slot -> its progress

httpVars == <<serverReady, requests>>
svcVars == <<sseVars, clientVars, httpVars>>

vars == <<stDocs, stField, stOut, stPc, saHeap, saRoot, saOut, saPc, scDocs, scIdx, scAcc,
          firestore, call, dbOps, pool, sessions, transports, closing, deleted, reply,
          env, cachedFirestore, constructed, got, serverReady, requests>>

(***************************************************************************)
(* JavaScript values.  A value is a cell [t, n, s]: t is the kind, n a     *)
(* numeric payload, s a string payload.  Objects and arrays live in a heap *)
(* (a sequence of objects); a cell of kind "ref" holds the heap index, so  *)
(* that identity, sharing and cycles are expressible.                      *)
(***************************************************************************)
Cell(t, n, s) == [t |-> t, n |-> n, s |-> s]
Undefined == Cell("undefined", 0, "")
Null == Cell("null", 0, "")
Num(n) == Cell("number", n, "")
NaN == Cell("number", 0, "NaN")
Str(s) == Cell("string", 0, s)
Bool(b) == Cell("boolean", IF b THEN 1 ELSE 0, "")
Ref(i) == Cell("ref", i, "")
\* A function value; s is its name.  ObjectCtor is Object.prototype.constructor.
Fn(name) == Cell("function", 0, name)
ObjectCtor == Fn("Object")

\* Heap objects: cls is the name of the real constructor, f the own
\* enumerable properties, e the elements of an array, hook/hv the toJSON
\* method found on the prototype ("none", "throws", or "returns" hv).
PlainObj(f) == [cls |-> "Object", f |-> f, e |-> <<>>, hook |-> "none", hv |-> Undefined]
ArrayObj(e) == [cls |-> "Array", f |-> [k \in {} |-> Undefined], e |-> e, hook |-> "none", hv |-> Undefined]
HookObj(f, hook, hv) == [cls |-> "Object", f |-> f, e |-> <<>>, hook |-> hook, hv |-> hv]
NoFields == [k \in {} |-> Undefined]
OneField(k, c) == [x \in {k} |-> c]

\* Property names every plain object inherits from Object.prototype; the
\* model keeps one representative.
ProtoKeys == {"constructor"}

\* obj[key] in JavaScript: the own property when there is one, else the
\* property inherited from Object.prototype, else undefined.
GetProp(o, key) ==
    IF key \in DOMAIN o.f THEN o.f[key]
    ELSE IF key \in ProtoKeys THEN Fn(o.cls)
    ELSE Undefined

\* typeof value === "number" && Number.isFinite(value)
IsFiniteNumber(c) == c.t = "number" /\ c.s = ""

\* A document snapshot as the executor holds it: {id, data}; data is the
\* object at index 1 of the document's own heap h.
Doc(id, h) == [id |-> id, h |-> h]
FlatDoc(id, f) == Doc(id, <<PlainObj(f)>>)
DocData(doc) == doc.h[1]

(***************************************************************************)
(* Aggregation calculator: collectNumericStats.                            *)
(***************************************************************************)
\* A quotient of two integers, kept exact.
Ratio(a, b) == [num |-> a, den |-> b]

\* One iteration of the loop over docs.
StatsStep(acc, value) ==
    IF IsFiniteNumber(value)
    THEN [acc EXCEPT !.sum = @ + value.n, !.validCount = @ + 1]
    ELSE IF value # Undefined
    THEN [acc EXCEPT !.invalidCount = @ + 1]
    ELSE acc

RECURSIVE StatsLoop(_, _, _, _)
StatsLoop(docs, field, i, acc) ==
    IF i > Len(docs) THEN acc
    ELSE StatsLoop(docs, field, i + 1, StatsStep(acc, GetProp(DocData(docs[i]), field)))

\* Plausible slip: the average taken over every document that has a value.
StatsAverageOverAll(sum, validCount, invalidCount) ==
    IF validCount + invalidCount > 0 THEN Ratio(sum, validCount + invalidCount) ELSE Ratio(0, 1)

StatsAverage(sum, validCount, invalidCount) ==
    IF validCount > 0 THEN Ratio(sum, validCount) ELSE Ratio(0, 1)

collectNumericStats(docs, field) ==
    LET r == StatsLoop(docs, field, 1, [sum |-> 0, validCount |-> 0, invalidCount |-> 0])
    IN  [sum |-> r.sum,
         average |-> StatsAverage(r.sum, r.validCount, r.invalidCount),
         validCount |-> r.validCount,
         invalidCount |-> r.invalidCount]

NoStats == [sum |-> 0, average |-> Ratio(0, 1), validCount |-> 0, invalidCount |-> 0]

(***************************************************************************)
(* Harness of collectNumericStats: the arguments are drawn in StatsInit,   *)
(* RunStats is the call.                                                   *)
(***************************************************************************)
MaxStatDocs == 4

\* The data of the documents a query can hand to collectNumericStats.
StatFieldMaps ==
    {NoFields} \cup
    {OneField("x", c) : c \in {Num(5), Num(3), Num(-2), Str("a"), NaN, Null}}

StatFieldNames == {"x", "y", "constructor"}

RECURSIVE SeqsUpTo(_, _)
SeqsUpTo(S, n) ==
    IF n = 0 THEN {<<>>}
    ELSE LET shorter == SeqsUpTo(S, n - 1)
         IN  shorter \cup {Append(q, x) : q \in {r \in shorter : Len(r) = n - 1}, x \in S}

StatsIdle ==
    /\ stDocs = <<>>
    /\ stField = ""
    /\ stOut = NoStats
    /\ stPc = "off"

StatsInit ==
    /\ stDocs \in {[i \in 1..Len(q) |-> FlatDoc("d", q[i])] : q \in SeqsUpTo(StatFieldMaps, MaxStatDocs)}
    /\ stField \in StatFieldNames
    /\ stOut = NoStats
    /\ stPc = "ready"

RunStats ==
    /\ stPc = "ready"
    /\ stOut' = collectNumericStats(stDocs, stField)
    /\ stPc' = "done"
    /\ UNCHANGED <<stDocs, stField>>
    /\ UNCHANGED <<sanVars, schemaVars, execVars, pool, svcVars>>

(***************************************************************************)
(* Value sanitizer: sanitizeFirestoreValue.                                *)
(*                                                                         *)
(* The returned value is kept as the set of its nodes, one entry           *)
(* [p, v] per node: p is the path of keys from the top (an array index is  *)
(* the key ToString(index)), v the primitive at a leaf and ObjNode or      *)
(* ArrNode at an object or array.  Two returned values are structurally    *)
(* equal exactly when their entry sets are equal.                          *)
(*                                                                         *)
(* An outcome is [out, seen, err]: err is "" for a normal return and the   *)
(* message of the error thrown otherwise; seen is the WeakSet after the    *)
(* call (it is shared by the whole recursion and mutated in place, so its  *)
(* additions survive a throw).                                             *)
(***************************************************************************)
Entry(path, cell) == [p |-> path, v |-> cell]
ObjNode == Cell("object", 0, "")
ArrNode == Cell("array", 0, "")
Circular == Str("[Circular]")
InvalidTime == "Invalid time value"
StackOverflow == "Maximum call stack size exceeded"

SanReturn(out, seen) == [out |-> out, seen |-> seen, err |-> ""]
SanThrow(seen, msg) == [out |-> {}, seen |-> seen, err |-> msg]
SanLeaf(path, cell, seen) == SanReturn({Entry(path, cell)}, seen)

\* Object.entries order, fixed per key.
KeyOrder == <<"0", "a", "b", "c", "x", "y", "id", "a.b", "constructor", "name">>
OwnKeys(o) == SelectSeq(KeyOrder, LAMBDA k : k \in DOMAIN o.f)

\* value.constructor?.name; "" stands for undefined.  The own property
\* "constructor" shadows the one inherited from the prototype.
CtorName(h, o) ==
    LET c == GetProp(o, "constructor")
    IN  IF c.t = "function" THEN c.s
        ELSE IF c.t = "ref" /\ GetProp(h[c.n], "name").t = "string" THEN GetProp(h[c.n], "name").s
        ELSE ""

\* Date.prototype.toISOString: throws a RangeError on an invalid date.
DateToISO(c, path, seen) ==
    IF c.s = "invalid" THEN SanThrow(seen, InvalidTime)
    ELSE SanLeaf(path, Cell("string", c.n, "ISO"), seen)

\* The branches for the database's native values (cells of kind Timestamp,
\* GeoPoint, DocumentReference: instances of those classes).
SanNative(c, path, seen) ==
    CASE c.t = "Timestamp" ->
            IF c.s = "ok" THEN SanLeaf(path, Cell("string", c.n, "ISO"), seen)
            ELSE \* toDate() or toISOString() threw inside the try block
                 SanReturn({Entry(path, ObjNode),
                            Entry(Append(path, "seconds"), Num(c.n)),
                            Entry(Append(path, "nanoseconds"), Num(0))}, seen)
      [] c.t = "GeoPoint" ->
            SanReturn({Entry(path, ObjNode),
                       Entry(Append(path, "latitude"), IF c.s = "full" THEN Num(c.n) ELSE Undefined),
                       Entry(Append(path, "longitude"), IF c.s = "full" THEN Num(c.n) ELSE Undefined)}, seen)
      [] c.t = "DocumentReference" ->
            SanReturn({Entry(path, ObjNode),
                       Entry(Append(path, "path"), IF c.s = "full" THEN Str("coll/doc") ELSE Undefined),
                       Entry(Append(path, "id"), IF c.s = "full" THEN Str("doc") ELSE Undefined)}, seen)

\* The seen test of the generic object branch.
SeenHas(seen, id) == id \in seen

RECURSIVE San(_, _, _, _, _, _)
RECURSIVE SanElems(_, _, _, _, _, _, _, _)
RECURSIVE SanEntries(_, _, _, _, _, _, _, _)

\* value.map((item) => sanitizeFirestoreValue(item, seen))
SanElems(h, e, i, seen, stack, path, room, acc) ==
    IF i > Len(e) THEN SanReturn(acc, seen)
    ELSE LET r == San(h, e[i], seen, stack, Append(path, ToString(i - 1)), room)
         IN  IF r.err # "" THEN SanThrow(r.seen, r.err)
             ELSE SanElems(h, e, i + 1, r.seen, stack, path, room, acc \cup r.out)

\* for (const [key, nestedValue] of Object.entries(value)) result[key] = ...
SanEntries(h, o, keys, seen, stack, path, room, acc) ==
    IF keys = <<>> THEN SanReturn(acc, seen)
    ELSE LET r == San(h, o.f[Head(keys)], seen, stack, Append(path, Head(keys)), room)
         IN  IF r.err # "" THEN SanThrow(r.seen, r.err)
             ELSE SanEntries(h, o, Tail(keys), r.seen, stack, path, room, acc \cup r.out)

\* Generic object traversal: the seen test, seen.add, the loop over the
\* entries.  full = TRUE: the call stack is full (a stack overflow was just
\* caught in this frame), so the first nested call overflows again.
SanGeneric(h, id, seen, stack, path, room, full) ==
    IF SeenHas(seen, id) THEN SanLeaf(path, Circular, seen)
    ELSE IF full /\ OwnKeys(h[id]) # <<>> THEN SanThrow(seen \cup {id}, StackOverflow)
    ELSE SanEntries(h, h[id], OwnKeys(h[id]), seen \cup {id}, stack, path, room, {Entry(path, ObjNode)})

\* The object branch for a heap object that is not an array.
SanObject(h, id, seen, stack, path, room) ==
    LET o == h[id]
        ctorName == CtorName(h, o)
    IN  IF ctorName = "Timestamp" /\ GetProp(o, "toDate").t = "function"
        THEN \* an own toDate property: plain data holds no function, so
             \* the call is taken to throw into the catch block
             SanReturn({Entry(path, ObjNode),
                        Entry(Append(path, "seconds"), GetProp(o, "seconds")),
                        Entry(Append(path, "nanoseconds"), GetProp(o, "nanoseconds"))}, seen)
        ELSE IF ctorName = "GeoPoint"
        THEN SanReturn({Entry(path, ObjNode),
                        Entry(Append(path, "latitude"), GetProp(o, "latitude")),
                        Entry(Append(path, "longitude"), GetProp(o, "longitude"))}, seen)
        ELSE IF ctorName = "DocumentReference"
        THEN SanReturn({Entry(path, ObjNode),
                        Entry(Append(path, "path"), GetProp(o, "path")),
                        Entry(Append(path, "id"), GetProp(o, "id"))}, seen)
        ELSE IF o.hook = "returns"
        THEN IF <<id, seen>> \in stack
             THEN \* the same call is already on the stack with the same seen
                  \* set: the recursion does not end, the stack overflows in
                  \* the try block of the deepest frame, whose catch falls
                  \* through to the generic traversal; whether the stack
                  \* then has room for one more call depends on the engine
                  \* (room)
                  SanGeneric(h, id, seen, stack, path, room, ~room)
             ELSE LET r == San(h, o.hv, seen, stack \cup {<<id, seen>>}, path, room)
                  IN  IF r.err = "" THEN r
                      ELSE SanGeneric(h, id, r.seen, stack, path, room, FALSE)
        ELSE \* no toJSON, or toJSON threw
             SanGeneric(h, id, seen, stack, path, room, FALSE)

San(h, c, seen, stack, path, room) ==
    IF c.t \in {"null", "undefined"} THEN SanLeaf(path, Null, seen)
    ELSE IF c.t \in {"number", "string", "boolean"} THEN SanLeaf(path, c, seen)
    ELSE IF c.t = "bigint" THEN SanLeaf(path, Cell("string", c.n, "decimal"), seen)
    ELSE IF c.t = "Date" THEN DateToISO(c, path, seen)
    ELSE IF c.t = "ref" /\ h[c.n].cls = "Array"
    THEN IF <<c.n, seen>> \in stack
         THEN SanThrow(seen, StackOverflow)
         ELSE SanElems(h, h[c.n].e, 1, seen, stack \cup {<<c.n, seen>>}, path, room, {Entry(path, ArrNode)})
    ELSE IF c.t = "Buffer" THEN SanLeaf(path, Cell("string", c.n, "base64"), seen)
    ELSE IF c.t \in {"Timestamp", "GeoPoint", "DocumentReference"} THEN SanNative(c, path, seen)
    ELSE IF c.t = "ref" THEN SanObject(h, c.n, seen, stack, path, room)
    ELSE SanLeaf(path, Cell("string", 0, "String(value)"), seen)

\* sanitizeFirestoreValue(value): seen defaults to a new WeakSet.
sanitizeFirestoreValue(h, c, room) == San(h, c, {}, {}, <<>>, room)

(***************************************************************************)
(* Harness of sanitizeFirestoreValue: the argument and the object graph it *)
(* lives in are drawn in SanInit, Sanitize is the call.                    *)
(***************************************************************************)
MaxObjs == 2
ObjIds == 1..MaxObjs

FieldMapsOver(keys, cells) == UNION {[S -> cells] : S \in SUBSET keys}

\* Object graphs with sharing and cycles: plain objects, arrays and objects
\* with a toJSON method, holding a number or references to each other.
GraphCells == {Num(1)} \cup {Ref(i) : i \in ObjIds}
GraphShapes(keys, maxElems) ==
    {PlainObj(f) : f \in FieldMapsOver(keys, GraphCells)}
    \cup {HookObj(f, "throws", Undefined) : f \in FieldMapsOver(keys, GraphCells)}
    \cup {HookObj(f, "returns", c) : f \in FieldMapsOver(keys, GraphCells), c \in GraphCells}
    \cup {ArrayObj(e) : e \in SeqsUpTo(GraphCells, maxElems)}
HeapsOf(rootShapes, otherShapes) ==
    {[i \in ObjIds |-> IF i = 1 THEN r ELSE rest[i]] :
        r \in rootShapes, rest \in [ObjIds \ {1} -> otherShapes]}
GraphHeaps == HeapsOf(GraphShapes({"a", "b"}, 2), GraphShapes({"a"}, 1))

\* Plain JSON trees: null, numbers, strings, booleans, arrays and plain
\* objects, every object referenced at most once and only from a lower index.
JsonLeaves == {Null, Num(1), Str("GeoPoint"), Bool(TRUE)}
JsonCells == JsonLeaves \cup {Ref(i) : i \in ObjIds \ {1}}
JsonShapes(keys, maxElems) ==
    {PlainObj(f) : f \in FieldMapsOver(keys, JsonCells)}
    \cup {ArrayObj(e) : e \in SeqsUpTo(JsonCells, maxElems)}
CellsOf(o) == {o.f[k] : k \in DOMAIN o.f} \cup {o.e[i] : i \in DOMAIN o.e}
RefCount(o, j) ==
    Cardinality({k \in DOMAIN o.f : o.f[k] = Ref(j)}) + Cardinality({i \in DOMAIN o.e : o.e[i] = Ref(j)})
RECURSIVE RefTotal(_, _, _)
RefTotal(h, j, i) == IF i = 0 THEN 0 ELSE RefCount(h[i], j) + RefTotal(h, j, i - 1)
IsTree(h) ==
    /\ \A i \in DOMAIN h : \A c \in CellsOf(h[i]) : c.t = "ref" => c.n > i
    /\ \A i \in DOMAIN h : h[i].hook = "returns" => h[i].hv.t # "ref"
    /\ \A j \in DOMAIN h : RefTotal(h, j, Len(h)) <= 1
JsonHeaps ==
    {h \in HeapsOf(JsonShapes({"a", "constructor"}, 2), JsonShapes({"name"}, 1)) : IsTree(h)}

\* Values the database client and the runtime hand out that are neither
\* JSON nor containers.
NativeLeaves ==
    {Undefined, Cell("bigint", 7, ""), Cell("Buffer", 7, ""), Cell("symbol", 0, ""),
     Cell("Date", 7, "valid"), Cell("Date", 0, "invalid"),
     Cell("Timestamp", 7, "ok"), Cell("Timestamp", 7, "toDateThrows"), Cell("Timestamp", 7, "invalidDate"),
     Cell("GeoPoint", 7, "full"), Cell("GeoPoint", 0, "noLatitude"),
     Cell("DocumentReference", 0, "full"), Cell("DocumentReference", 0, "noPath")}
LeafHeaps ==
    {[i \in ObjIds |-> IF i = 1 THEN o ELSE PlainObj(NoFields)] :
        o \in {PlainObj(OneField("a", c)) : c \in NativeLeaves}
              \cup {ArrayObj(<<c>>) : c \in NativeLeaves}
              \cup {HookObj(OneField("a", Num(1)), "returns", c) : c \in NativeLeaves}}

NoOutcome == SanReturn({}, {})

SanIdle ==
    /\ saHeap = <<>>
    /\ saRoot = Undefined
    /\ saOut = NoOutcome
    /\ saPc = "off"

SanInit ==
    /\ \/ saHeap \in GraphHeaps \cup JsonHeaps \cup LeafHeaps /\ saRoot = Ref(1)
       \/ saHeap = [i \in ObjIds |-> PlainObj(NoFields)] /\ saRoot \in NativeLeaves \cup JsonLeaves
    /\ saOut = NoOutcome
    /\ saPc = "ready"

\* room: whether the engine's stack has room for one more call after a
\* stack overflow was caught (it depends on the frame sizes of the build).
Sanitize(room) ==
    /\ saPc = "ready"
    /\ saOut' = sanitizeFirestoreValue(saHeap, saRoot, room)
    /\ saPc' = "done"
    /\ UNCHANGED <<saHeap, saRoot>>
    /\ UNCHANGED <<statsVars, schemaVars, execVars, pool, svcVars>>

SanNext == \E room \in BOOLEAN : Sanitize(room)

(***************************************************************************)
(* Schema inferencer: describeValueType and collectSchema.                 *)
(*                                                                         *)
(* A field path is the string `${prefix}.${key}`; it is kept as the        *)
(* sequence of its dot-free segments, so that two paths are equal exactly  *)
(* when the joined strings are (a key that itself contains a dot           *)
(* contributes several segments).                                          *)
(***************************************************************************)
describeValueType(h, c) ==
    IF c.t = "null" THEN "null"
    ELSE IF c.t = "undefined" THEN "undefined"
    ELSE IF c.t = "ref" /\ h[c.n].cls = "Array" THEN "array"
    ELSE IF c.t = "Date" THEN "timestamp"
    ELSE IF c.t = "Timestamp" THEN "timestamp"
    ELSE IF c.t = "GeoPoint" THEN "geopoint"
    ELSE IF c.t = "DocumentReference" THEN "reference"
    ELSE IF c.t = "Buffer" THEN "object"
    ELSE IF c.t = "ref"
    THEN LET ctorName == CtorName(h, h[c.n])
         IN  IF ctorName = "Timestamp" /\ GetProp(h[c.n], "toDate").t = "function" THEN "timestamp"
             ELSE IF ctorName = "GeoPoint" THEN "geopoint"
             ELSE IF ctorName = "DocumentReference" THEN "reference"
             ELSE "object"
    ELSE c.t

\* The segments of a key.
Segs(key) == IF key = "a.b" THEN <<"a", "b">> ELSE <<key>>
\* prefix ? `${prefix}.${key}` : key
JoinPath(prefix, key) == IF prefix = <<>> THEN Segs(key) ELSE prefix \o Segs(key)

\* Object.entries(value) of a value tagged object: the own properties of a
\* heap object, the bytes of a Buffer (the model's buffers hold one byte).
EntryKeys(h, c) == IF c.t = "Buffer" THEN <<"0">> ELSE OwnKeys(h[c.n])
EntryValue(h, c, key) == IF c.t = "Buffer" THEN Num(c.n) ELSE h[c.n].f[key]

\* schema and examples are object literals: schema[fieldPath] finds an own
\* property (a Set), else what Object.prototype has under that name.
SchemaHasOwn(acc, path) == path \in DOMAIN acc.schema
SchemaInherits(path) == \E k \in ProtoKeys : path = <<k>>
NotAFunction == "schema[fieldPath].add is not a function"

\* Set.prototype.add on a set kept in insertion order.
SetAdd(q, x) == IF \E i \in DOMAIN q : q[i] = x THEN q ELSE Append(q, x)
Put(f, k, v) == [x \in DOMAIN f \cup {k} |-> IF x = k THEN v ELSE f[x]]

\* The body of the loop of collectSchema without its recursive call.
SchemaRecord(acc, h, fieldPath, value) ==
    IF SchemaHasOwn(acc, fieldPath)
    THEN [acc EXCEPT !.schema[fieldPath] = SetAdd(@, describeValueType(h, value))]
    ELSE IF SchemaInherits(fieldPath)
    THEN \* !schema[fieldPath] is false, and the inherited value has no add
         [acc EXCEPT !.err = NotAFunction]
    ELSE [acc EXCEPT !.schema = Put(@, fieldPath, <<describeValueType(h, value)>>),
                     !.examples = Put(@, fieldPath, [h |-> h, v |-> value])]

\* Plausible slip: arrays expanded element-wise.
SchemaDescendsArraysToo(h, value) ==
    describeValueType(h, value) \in {"object", "array"}

\* type === "object" && isPlainObject(value)
SchemaDescends(h, value) ==
    describeValueType(h, value) = "object" /\ value.t \in {"ref", "Buffer"}

\* The entries of an array, for the slip above.
SchemaKeys(h, c) ==
    IF c.t = "ref" /\ h[c.n].cls = "Array"
    THEN [i \in DOMAIN h[c.n].e |-> ToString(i - 1)]
    ELSE EntryKeys(h, c)
SchemaValue(h, c, key) ==
    IF c.t = "ref" /\ h[c.n].cls = "Array"
    THEN h[c.n].e[CHOOSE i \in DOMAIN h[c.n].e : ToString(i - 1) = key]
    ELSE EntryValue(h, c, key)

RECURSIVE collectSchema(_, _, _, _, _)
collectSchema(h, data, keys, acc, prefix) ==
    IF keys = <<>> \/ acc.err # "" THEN acc
    ELSE LET key == Head(keys)
             value == SchemaValue(h, data, key)
             fieldPath == JoinPath(prefix, key)
             recorded == SchemaRecord(acc, h, fieldPath, value)
             nested == IF recorded.err = "" /\ SchemaDescends(h, value)
                       THEN collectSchema(h, value, SchemaKeys(h, value), recorded, fieldPath)
                       ELSE recorded
         IN  collectSchema(h, data, Tail(keys), nested, prefix)

EmptyPaths == [x \in {} |-> <<>>]
NewAccumulator == [schema |-> EmptyPaths, examples |-> EmptyPaths, err |-> ""]

\* snapshot.docs.forEach: the call for one document.
SchemaOfDoc(acc, doc) == collectSchema(doc.h, Ref(1), SchemaKeys(doc.h, Ref(1)), acc, <<>>)

(***************************************************************************)
(* Harness of the schema inferencer: the sampled documents are drawn in    *)
(* SchemaInit, SchemaStep is one iteration of snapshot.docs.forEach.       *)
(***************************************************************************)
MaxSchemaDocs == 2

\* Documents as the database hands them out: trees of plain objects, arrays,
\* primitives and native values.  Object 2 is a nested map, object 3 the
\* array [1, 2].
SchemaDocHeap(f1, f2) == <<PlainObj(f1), PlainObj(f2), ArrayObj(<<Num(1), Num(2)>>)>>
SchemaRootMaps ==
    {a @@ c : a \in {NoFields} \cup {OneField("a", x) : x \in {Num(1), Str("s"), Ref(2)}},
              c \in {NoFields} \cup {OneField("c", x) : x \in {Ref(3), Cell("GeoPoint", 7, "full"), Cell("Buffer", 7, "")}}}
    \cup {OneField("a.b", Str("s")), OneField("constructor", Num(1))}
SchemaNestedMaps == {NoFields} \cup {OneField("b", x) : x \in {Num(1), Ref(3)}}
\* A document whose map field a holds a map field named constructor:
\* {a: {constructor: {name: "GeoPoint"}}}.
MapNamedLikeNative ==
    Doc("d", <<PlainObj(OneField("a", Ref(2))), PlainObj(OneField("constructor", Ref(3))),
               PlainObj(OneField("name", Str("GeoPoint")))>>)
SchemaDocs ==
    {Doc("d", h) : h \in {g \in {SchemaDocHeap(f1, f2) : f1 \in SchemaRootMaps, f2 \in SchemaNestedMaps} :
                            /\ IsTree(g)
                            /\ (\A k \in DOMAIN g[1].f : g[1].f[k] # Ref(2)) => g[2].f = NoFields}}
    \cup {MapNamedLikeNative}

SchemaIdle ==
    /\ scDocs = <<>>
    /\ scIdx = 0
    /\ scAcc = NewAccumulator

SchemaInit ==
    /\ scDocs \in SeqsUpTo(SchemaDocs, MaxSchemaDocs)
    /\ scIdx = 0
    /\ scAcc = NewAccumulator

SchemaStep ==
    /\ scIdx < Len(scDocs)
    /\ scAcc.err = ""
    /\ scAcc' = SchemaOfDoc(scAcc, scDocs[scIdx + 1])
    /\ scIdx' = scIdx + 1
    /\ UNCHANGED scDocs
    /\ UNCHANGED <<statsVars, sanVars, execVars, pool, svcVars>>

(***************************************************************************)
(* Argument validator: parseInspectArgs, parseQueryArgs and their helpers. *)
(*                                                                         *)
(* The raw payload is [isObj, collectionPath, sampleSize, filters,         *)
(* orderBy, limit, aggregation]: isObj is isPlainObject(rawArgs); a        *)
(* property that is absent reads as Undefined; filters and orderBy are     *)
(* [kind, items] with kind "absent", "array" or "other"; aggregation is    *)
(* [kind, hasCount, count, hasSum, sum, hasAvg, avg] with kind "absent",   *)
(* "object" or "other".  A parser returns [err, value]: err is NoError or  *)
(* the Error thrown.                                                       *)
(***************************************************************************)
WHERE_OPERATORS ==
    <<"==", "!=", "<", "<=", ">", ">=", "array-contains", "array-contains-any", "in", "not-in">>
WHERE_OPERATOR_SET == {WHERE_OPERATORS[i] : i \in DOMAIN WHERE_OPERATORS}
ORDER_DIRECTIONS == <<"asc", "desc">>
ORDER_DIRECTION_SET == {ORDER_DIRECTIONS[i] : i \in DOMAIN ORDER_DIRECTIONS}

\* A message: the text of an Error or of a result, kept by its parts.
\* msg is the fixed wording, arg the name it cites, idx the index it cites.
Message(msg, arg, idx) == [msg |-> msg, arg |-> arg, idx |-> idx]
NoError == Message("", "", -1)
Parsed(err, value) == [err |-> err, value |-> value]

\* String.prototype.trim on the strings of the model.
Trim(str) ==
    CASE str = " users " -> "users"
      [] str = " x " -> "x"
      [] str = " s1 " -> "s1"
      [] str = "  " -> ""
      [] OTHER -> str
\* typeof v !== "string" || v.trim() === ""
NotNonEmptyString(c) == c.t # "string" \/ Trim(c.s) = ""
\* typeof v !== "number" || !Number.isInteger(v) || v <= 0
NotPositiveInteger(c) == c.t # "number" \/ c.s # "" \/ c.n <= 0
\* Plausible slip: the presence of the key taken for true.
TruthyWhenPresent(c) == TRUE

\* Boolean(v)
Truthy(c) ==
    CASE c.t \in {"null", "undefined"} -> FALSE
      [] c.t = "boolean" -> c.n = 1
      [] c.t = "number" -> c.s \notin {"NaN"} /\ (c.n # 0 \/ c.s # "")
      [] c.t = "string" -> c.s # ""
      [] OTHER -> TRUE

NoList == [kind |-> "absent", items |-> <<>>]
NoAggregation == [kind |-> "absent", hasCount |-> FALSE, count |-> Undefined,
                  hasSum |-> FALSE, sum |-> Undefined, hasAvg |-> FALSE, avg |-> Undefined]

\* The payload {collectionPath, sampleSize, filters, orderBy, limit, aggregation},
\* and a payload that is not a plain object.
RawArgs(path, sampleSize, filters, orderBy, limit, aggregation) ==
    [isObj |-> TRUE, collectionPath |-> path, sampleSize |-> sampleSize, filters |-> filters,
     orderBy |-> orderBy, limit |-> limit, aggregation |-> aggregation]
NotAnObject == [RawArgs(Undefined, Undefined, NoList, NoList, Undefined, NoAggregation) EXCEPT !.isObj = FALSE]

\* Plausible slip: sampleSize taken as given when it is a number.
parseInspectArgsAnySize(rawArgs) ==
    IF ~rawArgs.isObj
    THEN Parsed(Message("inspect_collection_schema expects an object with collectionPath (string) and optional sampleSize (number).", "", -1),
                [collectionPath |-> "", sampleSize |-> 0])
    ELSE IF NotNonEmptyString(rawArgs.collectionPath)
    THEN Parsed(Message("collectionPath must be a non-empty string.", "", -1), [collectionPath |-> "", sampleSize |-> 0])
    ELSE Parsed(NoError, [collectionPath |-> Trim(rawArgs.collectionPath.s),
                          sampleSize |-> IF rawArgs.sampleSize.t # "number" THEN 10 ELSE rawArgs.sampleSize.n])

parseInspectArgs(rawArgs) ==
    IF ~rawArgs.isObj
    THEN Parsed(Message("inspect_collection_schema expects an object with collectionPath (string) and optional sampleSize (number).", "", -1),
                [collectionPath |-> "", sampleSize |-> 0])
    ELSE IF NotNonEmptyString(rawArgs.collectionPath)
    THEN Parsed(Message("collectionPath must be a non-empty string.", "", -1), [collectionPath |-> "", sampleSize |-> 0])
    ELSE IF rawArgs.sampleSize # Undefined /\ NotPositiveInteger(rawArgs.sampleSize)
    THEN Parsed(Message("sampleSize must be a positive integer when provided.", "", -1), [collectionPath |-> "", sampleSize |-> 0])
    ELSE Parsed(NoError, [collectionPath |-> Trim(rawArgs.collectionPath.s),
                          sampleSize |-> IF rawArgs.sampleSize = Undefined THEN 10 ELSE rawArgs.sampleSize.n])

\* Plausible slip: the value tested for null instead of the key for presence.
FilterItemErrorNullish(item, i) ==
    IF ~item.isObj THEN Message("filters[i] must be an object with field, operator, and value.", "", i)
    ELSE IF NotNonEmptyString(item.field) THEN Message("filters[i].field must be a non-empty string.", "field", i)
    ELSE IF item.operator.t # "string" \/ item.operator.s \notin WHERE_OPERATOR_SET
    THEN Message("filters[i].operator must be one of: WHERE_OPERATORS.", "operator", i)
    ELSE IF item.value.t \in {"null", "undefined"} THEN Message("filters[i] must include a value property.", "value", i)
    ELSE NoError

\* The callback of value.map in parseFilters, for the item at index i (from 0).
FilterItemError(item, i) ==
    IF ~item.isObj THEN Message("filters[i] must be an object with field, operator, and value.", "", i)
    ELSE IF NotNonEmptyString(item.field) THEN Message("filters[i].field must be a non-empty string.", "field", i)
    ELSE IF item.operator.t # "string" \/ item.operator.s \notin WHERE_OPERATOR_SET
    THEN Message("filters[i].operator must be one of: WHERE_OPERATORS.", "operator", i)
    ELSE IF ~item.hasValue THEN Message("filters[i] must include a value property.", "value", i)
    ELSE NoError
FilterItem(item) == [field |-> Trim(item.field.s), operator |-> item.operator.s, value |-> item.value]

\* The callback of value.map in parseOrderBy.
OrderItemError(item, i) ==
    IF ~item.isObj THEN Message("orderBy[i] must be an object with field and direction.", "", i)
    ELSE IF NotNonEmptyString(item.field) THEN Message("orderBy[i].field must be a non-empty string.", "field", i)
    ELSE IF item.direction.t # "string" \/ item.direction.s \notin ORDER_DIRECTION_SET
    THEN Message("orderBy[i].direction must be either 'asc' or 'desc'.", "direction", i)
    ELSE NoError
OrderItem(item) == [field |-> Trim(item.field.s), direction |-> item.direction.s]

\* The error of the first item, in index order, whose callback throws.
FirstError(errs) ==
    IF \A i \in DOMAIN errs : errs[i] = NoError THEN NoError
    ELSE errs[CHOOSE i \in DOMAIN errs : errs[i] # NoError /\ \A j \in 1..(i - 1) : errs[j] = NoError]

\* Plausible slip: invalid elements dropped instead of rejected.
parseFiltersDropping(value) ==
    IF value.kind = "absent" THEN Parsed(NoError, <<>>)
    ELSE IF value.kind # "array" THEN Parsed(Message("filters must be an array when provided.", "", -1), <<>>)
    ELSE LET kept == SelectSeq(value.items, LAMBDA item : FilterItemError(item, 0) = NoError)
         IN  Parsed(NoError, [i \in DOMAIN kept |-> FilterItem(kept[i])])

parseFilters(value) ==
    IF value.kind = "absent" THEN Parsed(NoError, <<>>)
    ELSE IF value.kind # "array" THEN Parsed(Message("filters must be an array when provided.", "", -1), <<>>)
    ELSE LET err == FirstError([i \in DOMAIN value.items |-> FilterItemError(value.items[i], i - 1)])
         IN  IF err # NoError THEN Parsed(err, <<>>)
             ELSE Parsed(NoError, [i \in DOMAIN value.items |-> FilterItem(value.items[i])])

parseOrderBy(value) ==
    IF value.kind = "absent" THEN Parsed(NoError, <<>>)
    ELSE IF value.kind # "array" THEN Parsed(Message("orderBy must be an array when provided.", "", -1), <<>>)
    ELSE LET err == FirstError([i \in DOMAIN value.items |-> OrderItemError(value.items[i], i - 1)])
         IN  IF err # NoError THEN Parsed(err, <<>>)
             ELSE Parsed(NoError, [i \in DOMAIN value.items |-> OrderItem(value.items[i])])

\* Plausible slip: the integer test left out.
parseLimitAnyPositive(value) ==
    IF value = Undefined THEN Parsed(NoError, 0)
    ELSE IF value.t # "number" \/ value.s = "NaN" \/ value.n <= 0
    THEN Parsed(Message("limit must be a positive integer when provided.", "", -1), 0)
    ELSE Parsed(NoError, value.n)

\* The parsed limit: 0 stands for undefined.
parseLimit(value) ==
    IF value = Undefined THEN Parsed(NoError, 0)
    ELSE IF NotPositiveInteger(value) THEN Parsed(Message("limit must be a positive integer when provided.", "", -1), 0)
    ELSE Parsed(NoError, value.n)

\* The parsed aggregation: defined = FALSE stands for undefined; sum and avg
\* are "" when the key is not set.
UndefinedAggregation ==
    [defined |-> FALSE, hasCount |-> FALSE, count |-> FALSE, sum |-> "", avg |-> ""]
\* Plausible slip: the aggregation left to be checked where it is used.
parseAggregationUnchecked(value) == Parsed(NoError, UndefinedAggregation)

parseAggregation(value) ==
    IF value.kind = "absent" THEN Parsed(NoError, UndefinedAggregation)
    ELSE IF value.kind # "object" THEN Parsed(Message("aggregation must be an object when provided.", "", -1), UndefinedAggregation)
    ELSE IF value.hasSum /\ NotNonEmptyString(value.sum)
    THEN Parsed(Message("aggregation.sum must be a non-empty string when provided.", "sum", -1), UndefinedAggregation)
    ELSE IF value.hasAvg /\ NotNonEmptyString(value.avg)
    THEN Parsed(Message("aggregation.avg must be a non-empty string when provided.", "avg", -1), UndefinedAggregation)
    ELSE IF ~value.hasCount /\ ~value.hasSum /\ ~value.hasAvg THEN Parsed(NoError, UndefinedAggregation)
    ELSE Parsed(NoError, [defined |-> TRUE,
                          hasCount |-> value.hasCount,
                          count |-> value.hasCount /\ Truthy(value.count),
                          sum |-> IF value.hasSum THEN Trim(value.sum.s) ELSE "",
                          avg |-> IF value.hasAvg THEN Trim(value.avg.s) ELSE ""])

NoQueryArgs ==
    [collectionPath |-> "", filters |-> <<>>, orderBy |-> <<>>, limit |-> 0, aggregation |-> UndefinedAggregation]

parseQueryArgs(rawArgs) ==
    IF ~rawArgs.isObj THEN Parsed(Message("query_firestore expects an object with query parameters.", "", -1), NoQueryArgs)
    ELSE IF NotNonEmptyString(rawArgs.collectionPath)
    THEN Parsed(Message("collectionPath must be a non-empty string.", "", -1), NoQueryArgs)
    ELSE LET parsedFilters == parseFilters(rawArgs.filters)
             parsedOrderBy == parseOrderBy(rawArgs.orderBy)
             parsedLimit == parseLimit(rawArgs.limit)
             parsedAggregation == parseAggregation(rawArgs.aggregation)
         IN  IF parsedFilters.err # NoError THEN Parsed(parsedFilters.err, NoQueryArgs)
             ELSE IF parsedOrderBy.err # NoError THEN Parsed(parsedOrderBy.err, NoQueryArgs)
             ELSE IF parsedLimit.err # NoError THEN Parsed(parsedLimit.err, NoQueryArgs)
             ELSE IF parsedAggregation.err # NoError THEN Parsed(parsedAggregation.err, NoQueryArgs)
             ELSE Parsed(NoError, [collectionPath |-> Trim(rawArgs.collectionPath.s),
                                   filters |-> parsedFilters.value,
                                   orderBy |-> parsedOrderBy.value,
                                   limit |-> parsedLimit.value,
                                   aggregation |-> parsedAggregation.value])

(***************************************************************************)
(* The database client as the executor uses it.  A query is the collection *)
(* path and the sequence of builder operations applied to it; the database *)
(* is a function from collection ids to their documents, in id order.      *)
(***************************************************************************)
QueryOp(k, field, op, value, n) == [k |-> k, field |-> field, op |-> op, value |-> value, n |-> n]
CollectionQuery(path) == [coll |-> path, ops |-> <<>>]
Where(q, filter) == [q EXCEPT !.ops = Append(@, QueryOp("where", filter.field, filter.operator, filter.value, 0))]
OrderBy(q, order) == [q EXCEPT !.ops = Append(@, QueryOp("orderBy", order.field, order.direction, Undefined, 0))]
Limit(q, n) == [q EXCEPT !.ops = Append(@, QueryOp("limit", "", "", Undefined, n))]

OpsOf(q, k) == SelectSeq(q.ops, LAMBDA o : o.k = k)

\* The server's evaluation of one filter on one document (own fields only;
\* the comparison operators on numbers, equality on every primitive).
Matches(doc, w) ==
    /\ w.field \in DOMAIN DocData(doc).f
    /\ LET v == DocData(doc).f[w.field]
       IN  CASE w.op = "==" -> v = w.value
             [] w.op = "!=" -> v # w.value /\ v.t # "null"
             [] w.op = "<" -> v.t = "number" /\ w.value.t = "number" /\ v.n < w.value.n
             [] w.op = "<=" -> v.t = "number" /\ w.value.t = "number" /\ v.n <= w.value.n
             [] w.op = ">" -> v.t = "number" /\ w.value.t = "number" /\ v.n > w.value.n
             [] w.op = ">=" -> v.t = "number" /\ w.value.t = "number" /\ v.n >= w.value.n
             [] w.op = "array-contains" ->
                    v.t = "ref" /\ doc.h[v.n].cls = "Array"
                    /\ \E i \in DOMAIN doc.h[v.n].e : doc.h[v.n].e[i] = w.value
             [] OTHER -> FALSE

\* The server's sort order of values: by type, then by value.
TypeRank(c) ==
    CASE c.t = "null" -> 0 [] c.t = "boolean" -> 1 [] c.t = "number" -> 2 [] c.t = "string" -> 4 [] OTHER -> 5
SortKey(doc, field) == LET v == DocData(doc).f[field] IN TypeRank(v) * 1000 + v.n
RECURSIVE Before(_, _, _)
Before(d1, d2, orders) ==
    IF orders = <<>> THEN FALSE
    ELSE LET k1 == SortKey(d1, Head(orders).field)
             k2 == SortKey(d2, Head(orders).field)
         IN  IF k1 = k2 THEN Before(d1, d2, Tail(orders))
             ELSE IF Head(orders).op = "desc" THEN k1 > k2 ELSE k1 < k2
RECURSIVE SortDocs(_, _)
SortDocs(docs, orders) ==
    IF docs = <<>> THEN <<>>
    ELSE LET rest == SortDocs(SubSeq(docs, 1, Len(docs) - 1), orders)
             d == docs[Len(docs)]
             k == Cardinality({i \in DOMAIN rest : ~Before(d, rest[i], orders)})
         IN  SubSeq(rest, 1, k) \o <<d>> \o SubSeq(rest, k + 1, Len(rest))

CollectionDocs(db, path) == IF path \in DOMAIN db THEN db[path] ELSE <<>>

\* The documents a query selects: every where clause holds (they are ANDed),
\* every ordered field is present, sorted, cut at the limit.
RunQuery(db, q) ==
    LET wheres == OpsOf(q, "where")
        orders == OpsOf(q, "orderBy")
        limits == OpsOf(q, "limit")
        selected == SelectSeq(CollectionDocs(db, q.coll),
                              LAMBDA d : /\ \A i \in DOMAIN wheres : Matches(d, wheres[i])
                                         /\ \A i \in DOMAIN orders : orders[i].field \in DOMAIN DocData(d).f)
        sorted == SortDocs(selected, orders)
    IN  IF limits = <<>> THEN sorted
        ELSE SubSeq(sorted, 1, IF limits[Len(limits)].n < Len(sorted) THEN limits[Len(limits)].n ELSE Len(sorted))

\* query.count().get(): the aggregation runs over the query as built, limit
\* clause included.
RunCount(db, q) == Len(RunQuery(db, q))

\* firestore.listCollections(): the ids, in the order Array.prototype.sort
\* gives them.
CollectionOrder == <<"orders", "users">>
SortedCollectionIds(db) == SelectSeq(CollectionOrder, LAMBDA c : c \in DOMAIN db)

(***************************************************************************)
(* FirestoreToolExecutor: results, and the three tool handlers.            *)
(*                                                                         *)
(* The text of a result is kept by its parts: head is the first line (its  *)
(* idx the N of "Found N documents."), aggregate the N of                  *)
(* "Aggregate count: N" (-1 when there is no such                          *)
(* line), stats the sum and average lines, docs the objects of the         *)
(* rendered JSON array, names the listed collection ids, schema the field  *)
(* blocks.                                                                 *)
(***************************************************************************)
PlainText(head) ==
    [head |-> head, aggregate |-> -1, stats |-> <<>>, docs |-> <<>>,
     names |-> <<>>, schema |-> <<>>]

\* thrown is TRUE when the promise of execute rejects instead of resolving.
\* A result without the isError key reads isError = FALSE.
successResult(text) ==
    [thrown |-> FALSE, isError |-> FALSE, content |-> <<[type |-> "text", text |-> text]>>]
errorResult(message) ==
    [thrown |-> FALSE, isError |-> TRUE, content |-> <<[type |-> "text", text |-> PlainText(message)]>>]
NoResult == [thrown |-> FALSE, isError |-> FALSE, content |-> <<>>]

\* Plausible slip: the handler's promise returned without await, so that its
\* rejection passes the try block by.
ExecuteRethrow(error) == [thrown |-> TRUE, isError |-> FALSE, content |-> <<>>]

\* The catch clause of execute.
ExecuteCatch(error) == errorResult(error)

\* An outcome of a handler body: the text it returns, or the error it throws.
Returns(text) == [err |-> NoError, text |-> text]
Throws(error) == [err |-> error, text |-> PlainText(NoError)]

formatNumericLine(label, field, value, validCount, invalidCount) ==
    [label |-> label, field |-> field, value |-> value,
     note |-> IF invalidCount = 0 THEN <<>>
              ELSE <<invalidCount, IF invalidCount = 1 THEN "document" ELSE "documents">>]

\* listCollections after the await.
ListText(collections) ==
    LET names == SortedCollectionIds(collections)
    IN  IF Len(names) = 0
        THEN Returns(PlainText(Message("No collections found in the Firestore project.", "", -1)))
        ELSE Returns([PlainText(Message("Found N collections:", "", Len(names))) EXCEPT !.names = names])

\* localeCompare on field paths: by segment, a proper prefix first.
LocaleOrder == <<"0", "a", "b", "c", "constructor", "id", "name", "x", "y">>
LocaleRank(seg) == CHOOSE i \in DOMAIN LocaleOrder : LocaleOrder[i] = seg
RECURSIVE PathBefore(_, _)
PathBefore(a, b) ==
    IF a = <<>> THEN b # <<>>
    ELSE IF b = <<>> THEN FALSE
    ELSE IF Head(a) = Head(b) THEN PathBefore(Tail(a), Tail(b))
    ELSE LocaleRank(Head(a)) < LocaleRank(Head(b))
RECURSIVE SortPaths(_)
SortPaths(paths) ==
    IF paths = {} THEN <<>>
    ELSE LET first == CHOOSE a \in paths : \A b \in paths \ {a} : PathBefore(a, b)
         IN  <<first>> \o SortPaths(paths \ {first})

RECURSIVE SchemaOfDocs(_, _)
SchemaOfDocs(acc, docs) ==
    IF docs = <<>> \/ acc.err # "" THEN acc
    ELSE SchemaOfDocs(SchemaOfDoc(acc, Head(docs)), Tail(docs))

\* inspectCollectionSchema after the await; accumulators is the pair
\* (schema, examples) the documents are collected into.
InspectInto(accumulators, args, snapshotDocs) ==
    IF snapshotDocs = <<>>
    THEN Returns(PlainText(Message("Collection 'X' is empty or does not exist.", args.collectionPath, -1)))
    ELSE LET acc == SchemaOfDocs(accumulators, snapshotDocs)
             fields == SortPaths(DOMAIN acc.schema)
             example == [i \in DOMAIN fields |->
                            sanitizeFirestoreValue(acc.examples[fields[i]].h, acc.examples[fields[i]].v, TRUE)]
             summaryLines == [i \in DOMAIN fields |->
                                 [field |-> fields[i], types |-> acc.schema[fields[i]], example |-> example[i].out]]
         IN  IF acc.err # "" THEN Throws(Message(acc.err, "", -1))
             ELSE IF \E i \in DOMAIN fields : example[i].err # ""
             THEN Throws(Message(example[CHOOSE i \in DOMAIN fields :
                                             example[i].err # "" /\ \A j \in 1..(i - 1) : example[j].err = ""].err, "", -1))
             ELSE Returns([PlainText(Message("Schema analysis for collection 'X' (sampled N documents):",
                                             args.collectionPath, Len(snapshotDocs)))
                              EXCEPT !.schema = summaryLines])

\* Plausible slip: the limit clause left off the query.
ApplyNoLimit(q, limit) == q

\* if (typeof args.limit === "number") query = query.limit(args.limit)
ApplyLimit(q, limit) == IF limit # 0 THEN Limit(q, limit) ELSE q

RECURSIVE ApplyAll(_, _, _)
ApplyAll(q, items, k) ==
    IF items = <<>> THEN q
    ELSE ApplyAll(IF k = "where" THEN Where(q, Head(items)) ELSE OrderBy(q, Head(items)), Tail(items), k)

\* Plausible slip: the count run whenever an aggregation is given.
CountRequestedWhenDefined(args) == args.aggregation.defined

\* if (args.aggregation?.count)
CountRequested(args) == args.aggregation.defined /\ args.aggregation.count

\* Plausible slip: the order clauses applied before the filters.
BuildQueryOrderFirst(args) ==
    ApplyLimit(ApplyAll(ApplyAll(CollectionQuery(args.collectionPath), args.orderBy, "orderBy"),
                        args.filters, "where"),
               args.limit)

\* The query queryFirestore builds before its first await.
BuildQuery(args) ==
    ApplyLimit(ApplyAll(ApplyAll(CollectionQuery(args.collectionPath), args.filters, "where"),
                        args.orderBy, "orderBy"),
               args.limit)

\* { id, ...sanitizeFirestoreValue(data) }: the id, overwritten by a field of
\* the data of the same name.
Rendered(id, sanitized) ==
    IF \E e \in sanitized : e.p = <<"id">> THEN sanitized \cup {Entry(<<>>, ObjNode)}
    ELSE sanitized \cup {Entry(<<>>, ObjNode), Entry(<<"id">>, Str(id))}

\* queryFirestore after the await of query.get(); aggregateCount is -1 for
\* undefined.
QueryText(args, aggregateCount, snapshotDocs) ==
    LET rawDocs == snapshotDocs
        sanitized == [i \in DOMAIN rawDocs |-> sanitizeFirestoreValue(rawDocs[i].h, Ref(1), TRUE)]
        sanitizedDocs == [i \in DOMAIN rawDocs |-> Rendered(rawDocs[i].id, sanitized[i].out)]
        sumStats == collectNumericStats(rawDocs, args.aggregation.sum)
        avgStats == collectNumericStats(rawDocs, args.aggregation.avg)
        sumLine == IF args.aggregation.sum # ""
                   THEN <<formatNumericLine("Sum of", args.aggregation.sum, Ratio(sumStats.sum, 1),
                                            sumStats.validCount, sumStats.invalidCount)>>
                   ELSE <<>>
        avgLine == IF args.aggregation.avg # ""
                   THEN <<formatNumericLine("Average of", args.aggregation.avg, avgStats.average,
                                            avgStats.validCount, avgStats.invalidCount)>>
                   ELSE <<>>
    IN  IF \E i \in DOMAIN rawDocs : sanitized[i].err # ""
        THEN Throws(Message(sanitized[CHOOSE i \in DOMAIN rawDocs :
                                          sanitized[i].err # "" /\ \A j \in 1..(i - 1) : sanitized[j].err = ""].err, "", -1))
        ELSE Returns([PlainText(Message("Found N documents.", "", Len(rawDocs)))
                         EXCEPT !.aggregate = aggregateCount,
                                !.stats = sumLine \o avgLine,
                                !.docs = sanitizedDocs])

(***************************************************************************)
(* execute as a process: Invoke runs it up to its first await, each        *)
(* ...Returns action is the completion of the awaited database operation   *)
(* (ok = FALSE: the operation rejects) and runs it up to the next await or *)
(* to its result, Return hands the result to the caller.                   *)
(*                                                                         *)
(* call.fault records where the invocation failed: "unknown tool",         *)
(* "validation" (a parser threw), "database" (an operation rejected),      *)
(* "internal" (a throw after the documents arrived), "" for no failure.    *)
(***************************************************************************)
\* Plausible slip: a fetch that also clears what it read.
DbOpClearing(op, q) == [op |-> IF op = "get" THEN "delete" ELSE op, query |-> q]

DbOp(op, q) == [op |-> op, query |-> q]

\* The contents of the database after an operation of the client library:
\* listCollections, count and get leave them as they are, any other
\* operation on a collection empties it.
ReadOps == {"listCollections", "count", "get"}
Effect(db, op) ==
    IF op.op \in ReadOps THEN db
    ELSE [c \in DOMAIN db |-> IF c = op.query.coll THEN <<>> ELSE db[c]]
RECURSIVE Effects(_, _)
Effects(db, ops) == IF ops = <<>> THEN db ELSE Effects(Effect(db, Head(ops)), Tail(ops))
\* The operations a step has issued.
Issued(before, after) == SubSeq(after, Len(before) + 1, Len(after))
DatabaseError == Message("7 PERMISSION_DENIED: Missing or insufficient permissions.", "", -1)

IdleCall ==
    [pc |-> "idle", name |-> "", rawArgs |-> NotAnObject, args |-> NoQueryArgs, sampleSize |-> 0,
     query |-> CollectionQuery(""), aggregateCount |-> -1, fault |-> "", result |-> NoResult]

\* Plausible slip: the count already obtained reported along with the error.
FailsKeepingCount(c, fault, error) ==
    [c EXCEPT !.pc = "done", !.fault = fault,
              !.result = [ExecuteCatch(error) EXCEPT !.content[1].text.aggregate = c.aggregateCount]]

\* The invocation ends with the handler throwing error.
Fails(c, fault, error) == [c EXCEPT !.pc = "done", !.fault = fault, !.result = ExecuteCatch(error)]
\* The invocation ends with the outcome of a handler body.
Ends(c, outcome) ==
    IF outcome.err # NoError THEN Fails(c, "internal", outcome.err)
    ELSE [c EXCEPT !.pc = "done", !.result = successResult(outcome.text)]

\* A run of execute: the call and the database operations it has issued.
Run(c, ops) == [call |-> c, dbOps |-> ops]

\* execute from its entry to its first await, or to its result.
InvokeStep(run, name, rawArgs) ==
    LET c == [run.call EXCEPT !.name = name, !.rawArgs = rawArgs]
        inspect == parseInspectArgs(rawArgs)
        inspectQuery == Limit(CollectionQuery(inspect.value.collectionPath), inspect.value.sampleSize)
        parsed == parseQueryArgs(rawArgs)
        query == BuildQuery(parsed.value)
    IN  CASE name = "list_collections" ->
                 Run([c EXCEPT !.pc = "awaitList"],
                     Append(run.dbOps, DbOp("listCollections", CollectionQuery(""))))
          [] name = "inspect_collection_schema" ->
                 IF inspect.err # NoError
                 THEN Run(Fails(c, "validation", inspect.err), run.dbOps)
                 ELSE Run([c EXCEPT !.pc = "awaitSample",
                                    !.args.collectionPath = inspect.value.collectionPath,
                                    !.sampleSize = inspect.value.sampleSize,
                                    !.query = inspectQuery],
                          Append(run.dbOps, DbOp("get", inspectQuery)))
          [] name = "query_firestore" ->
                 IF parsed.err # NoError
                 THEN Run(Fails(c, "validation", parsed.err), run.dbOps)
                 ELSE IF CountRequested(parsed.value)
                 THEN Run([c EXCEPT !.pc = "awaitCount", !.args = parsed.value, !.query = query],
                          Append(run.dbOps, DbOp("count", query)))
                 ELSE Run([c EXCEPT !.pc = "awaitFetch", !.args = parsed.value, !.query = query],
                          Append(run.dbOps, DbOp("get", query)))
          [] OTHER ->
                 Run([c EXCEPT !.pc = "done", !.fault = "unknown tool",
                               !.result = errorResult(Message("Unknown tool: ", name, -1))],
                     run.dbOps)

\* The continuations of execute after each await; ok = FALSE: the awaited
\* operation rejected.  schema is the pair of accumulators the sample is
\* collected into.
ListStep(run, db, ok) ==
    Run(IF ok THEN Ends(run.call, ListText(db)) ELSE Fails(run.call, "database", DatabaseError), run.dbOps)
SampleStep(run, db, ok, schema) ==
    Run(IF ok THEN Ends(run.call, InspectInto(schema, run.call.args, RunQuery(db, run.call.query)))
        ELSE Fails(run.call, "database", DatabaseError),
        run.dbOps)
CountStep(run, db, ok) ==
    IF ok
    THEN Run([run.call EXCEPT !.pc = "awaitFetch", !.aggregateCount = RunCount(db, run.call.query)],
             Append(run.dbOps, DbOp("get", run.call.query)))
    ELSE Run(Fails(run.call, "database", DatabaseError), run.dbOps)
FetchStep(run, db, ok) ==
    Run(IF ok THEN Ends(run.call, QueryText(run.call.args, run.call.aggregateCount, RunQuery(db, run.call.query)))
        ELSE Fails(run.call, "database", DatabaseError),
        run.dbOps)

Invoke(name, rawArgs) ==
    /\ call.pc = "idle"
    /\ call' = InvokeStep(Run(call, dbOps), name, rawArgs).call
    /\ dbOps' = InvokeStep(Run(call, dbOps), name, rawArgs).dbOps
    /\ firestore' = Effects(firestore, Issued(dbOps, dbOps'))
    /\ UNCHANGED <<statsVars, sanVars, schemaVars, pool, svcVars>>

ListReturns(ok) ==
    /\ call.pc = "awaitList"
    /\ call' = ListStep(Run(call, dbOps), firestore, ok).call
    /\ UNCHANGED <<firestore, dbOps>>
    /\ UNCHANGED <<statsVars, sanVars, schemaVars, pool, svcVars>>

SampleReturns(ok) ==
    /\ call.pc = "awaitSample"
    /\ call' = SampleStep(Run(call, dbOps), firestore, ok, NewAccumulator).call
    /\ UNCHANGED <<firestore, dbOps>>
    /\ UNCHANGED <<statsVars, sanVars, schemaVars, pool, svcVars>>

CountReturns(ok) ==
    /\ call.pc = "awaitCount"
    /\ call' = CountStep(Run(call, dbOps), firestore, ok).call
    /\ dbOps' = CountStep(Run(call, dbOps), firestore, ok).dbOps
    /\ firestore' = Effects(firestore, Issued(dbOps, dbOps'))
    /\ UNCHANGED <<statsVars, sanVars, schemaVars, pool, svcVars>>

FetchReturns(ok) ==
    /\ call.pc = "awaitFetch"
    /\ call' = FetchStep(Run(call, dbOps), firestore, ok).call
    /\ UNCHANGED <<firestore, dbOps>>
    /\ UNCHANGED <<statsVars, sanVars, schemaVars, pool, svcVars>>

Return ==
    /\ call.pc = "done"
    /\ call' = IdleCall
    /\ dbOps' = <<>>
    /\ UNCHANGED firestore
    /\ UNCHANGED <<statsVars, sanVars, schemaVars, pool, svcVars>>

(***************************************************************************)
(* The SSE server (FirestoreSseServer): the session map and the handlers   *)
(* of GET, POST and DELETE on /mcp.  A transport is made by a GET with a   *)
(* session id of its own; its connect and its close are events that        *)
(* interleave with the requests.                                           *)
(***************************************************************************)
MaxSessions == 2

SessionIdPool == <<"s1", "s2", "s3", "s4">>
SessionIds == {SessionIdPool[i] : i \in 1..MaxSessions}

\* req.header("mcp-session-id") is a string or undefined; req.query["sessionId"]
\* is undefined, a string, an array or a nested object.
QueryParam(kind, items) == [kind |-> kind, items |-> items]
NoQueryParam == QueryParam("undefined", <<>>)
Request(method, header, query) == [method |-> method, header |-> header, query |-> query]

\* Plausible slip: the session id read from the header only.
getSessionIdFromHeader(req) ==
    IF req.header.t = "string" /\ Trim(req.header.s) # "" THEN Str(Trim(req.header.s)) ELSE Undefined

getSessionId(req) ==
    LET q == req.query
    IN  IF req.header.t = "string" /\ req.header.s # "" /\ Trim(req.header.s) # ""
        THEN Str(Trim(req.header.s))
        ELSE IF q.kind = "string" /\ Trim(q.items[1].s) # ""
        THEN Str(Trim(q.items[1].s))
        ELSE IF q.kind = "array" /\ Len(q.items) > 0
                /\ q.items[1].t = "string" /\ Trim(q.items[1].s) # ""
        THEN Str(Trim(q.items[1].s))
        ELSE Undefined

Transport(phase, closed) == [phase |-> phase, closed |-> closed]
NoTransport == Transport("none", FALSE)
Reply(req, status) == [req |-> req, status |-> status]
NoReply == Reply(Request("", Undefined, NoQueryParam), 0)
\* The status of an answer that the transport writes itself.
ByTransport == 1

SseIdle ==
    /\ sessions = {}
    /\ transports = <<>>
    /\ closing = {}
    /\ deleted = {}
    /\ reply = NoReply

SseInit ==
    /\ sessions = {}
    /\ transports = [id \in SessionIds |-> NoTransport]
    /\ closing = {}
    /\ deleted = {}
    /\ reply = NoReply

\* app.get("/mcp"): a transport with a new session id, its onclose handler,
\* and the connect started.
Get(id) ==
    /\ transports[id] = NoTransport
    /\ \E i \in 1..MaxSessions :
           id = SessionIdPool[i] /\ \A j \in 1..(i - 1) : transports[SessionIdPool[j]] # NoTransport
    /\ transports' = [transports EXCEPT ![id] = Transport("connecting", FALSE)]
    /\ UNCHANGED <<sessions, closing, deleted, reply>>
    /\ UNCHANGED <<statsVars, sanVars, schemaVars, execVars, pool, clientVars, httpVars>>

\* server.connect(transport).then(...)
ConnectResolves(id) ==
    /\ transports[id].phase = "connecting"
    /\ transports' = [transports EXCEPT ![id].phase = "connected"]
    /\ sessions' = sessions \cup {id}
    /\ UNCHANGED <<closing, deleted, reply>>
    /\ UNCHANGED <<statsVars, sanVars, schemaVars, execVars, pool, clientVars, httpVars>>

\* server.connect(transport).catch(...)
ConnectRejects(id, headersSent) ==
    /\ transports[id].phase = "connecting"
    /\ transports' = [transports EXCEPT ![id].phase = "failed"]
    /\ reply' = IF headersSent THEN reply
                ELSE Reply(Request("GET", Undefined, NoQueryParam), 500)
    /\ UNCHANGED <<sessions, closing, deleted>>
    /\ UNCHANGED <<statsVars, sanVars, schemaVars, execVars, pool, clientVars, httpVars>>

\* transport.onclose: the stream of the transport has closed.
TransportCloses(id) ==
    /\ transports[id].phase # "none"
    /\ ~transports[id].closed
    /\ transports' = [transports EXCEPT ![id].closed = TRUE]
    /\ sessions' = sessions \ {id}
    /\ UNCHANGED <<closing, deleted, reply>>
    /\ UNCHANGED <<statsVars, sanVars, schemaVars, execVars, pool, clientVars, httpVars>>

\* app.post("/mcp"); rejects: handlePostMessage was called and rejected
\* before any header was sent.
Post(req, rejects) ==
    LET sessionId == getSessionId(req)
        status == IF sessionId = Undefined THEN 400
                  ELSE IF sessionId.s \notin sessions THEN 404
                  ELSE IF rejects THEN 500 ELSE ByTransport
    IN  /\ req.method = "POST"
        /\ rejects => sessionId # Undefined /\ sessionId.s \in sessions
        /\ reply' = Reply(req, status)
        /\ UNCHANGED <<sessions, transports, closing, deleted>>
        /\ UNCHANGED <<statsVars, sanVars, schemaVars, execVars, pool, clientVars, httpVars>>

\* app.delete("/mcp") up to await session.transport.close(); ~closes:
\* close() was called and rejected without closing the transport.
Delete(req, closes) ==
    LET sessionId == getSessionId(req)
    IN  /\ req.method = "DELETE"
        /\ ~closes => sessionId # Undefined /\ sessionId.s \in sessions
        /\ IF sessionId = Undefined \/ sessionId.s \notin sessions
           THEN /\ reply' = Reply(req, IF sessionId = Undefined THEN 400 ELSE 404)
                /\ UNCHANGED <<sessions, transports, closing, deleted>>
           ELSE /\ sessions' = sessions \ {sessionId.s}
                /\ deleted' = deleted \cup {sessionId.s}
                /\ closing' = closing \cup {req}
                /\ transports' = IF closes /\ sessionId.s \in DOMAIN transports
                                 THEN [transports EXCEPT ![sessionId.s].closed = TRUE]
                                 ELSE transports
                /\ UNCHANGED reply
        /\ UNCHANGED <<statsVars, sanVars, schemaVars, execVars, pool, clientVars, httpVars>>

\* app.delete("/mcp") after the await: res.sendStatus(204).
DeleteAnswers(req) ==
    /\ req \in closing
    /\ closing' = closing \ {req}
    /\ reply' = Reply(req, 204)
    /\ UNCHANGED <<sessions, transports, deleted>>
    /\ UNCHANGED <<statsVars, sanVars, schemaVars, execVars, pool, clientVars, httpVars>>

\* The requests: each session id in the header, and for the first id the
\* other ways a request can carry or fail to carry it.
SseCarriers ==
    {<<Str(id), NoQueryParam>> : id \in SessionIds}
    \cup {<<Undefined, NoQueryParam>>,
          <<Str(""), NoQueryParam>>,
          <<Str("  "), NoQueryParam>>,
          <<Str(" s1 "), NoQueryParam>>,
          <<Str("zz"), QueryParam("string", <<Str("s1")>>)>>,
          <<Str("  "), QueryParam("string", <<Str(" s1 ")>>)>>,
          <<Undefined, QueryParam("string", <<Str("  ")>>)>>,
          <<Undefined, QueryParam("array", <<Str("s1"), Str("zz")>>)>>,
          <<Undefined, QueryParam("array", <<Num(1), Str("s1")>>)>>,
          <<Undefined, QueryParam("object", <<>>)>>}
SseRequests == {Request(m, c[1], c[2]) : m \in {"POST", "DELETE"}, c \in SseCarriers}

SseNext ==
    \/ \E id \in SessionIds : Get(id)
    \/ \E id \in SessionIds : ConnectResolves(id)
    \/ \E id \in SessionIds, headersSent \in BOOLEAN : ConnectRejects(id, headersSent)
    \/ \E id \in SessionIds : TransportCloses(id)
    \/ \E req \in SseRequests, rejects \in BOOLEAN : Post(req, rejects)
    \/ \E req \in SseRequests, closes \in BOOLEAN : Delete(req, closes)
    \/ \E req \in SseRequests : DeleteAnswers(req)

(***************************************************************************)
(* The database client module: getFirestore and initializeFirestore.       *)
(***************************************************************************)
\* The value of the environment variable: unset, or a string, given by what
\* JSON.parse makes of it: "" (empty), a syntax error, null, a number, or an
\* object whose project_id is the cell projectId.
EnvValue(kind, projectId) == [kind |-> kind, projectId |-> projectId]
Unset == EnvValue("unset", Undefined)
\* new Firestore({projectId, credentials}); serial tells one handle from
\* another made with the same settings.
Handle(projectId, serial) == [projectId |-> projectId, serial |-> serial]
NoHandle == Handle("", 0)

\* JSON.parse(serviceAccountJson)
JsonParse(e) ==
    IF e.kind = "garbage" THEN Parsed(Message("SyntaxError", "", -1), Undefined)
    ELSE Parsed(NoError, e)
\* credentials["project_id"]
ProjectIdOf(credentials) ==
    CASE credentials.kind = "null" ->
             Parsed(Message("TypeError: Cannot read properties of null (reading 'project_id')", "", -1),
                    Undefined)
      [] credentials.kind = "object" -> Parsed(NoError, credentials.projectId)
      [] OTHER -> Parsed(NoError, Undefined)

initializeFirestore(e, serial) ==
    IF e.kind \in {"unset", "empty"}
    THEN Parsed(Message("FIREBASE_SERVICE_ACCOUNT environment variable is required", "", -1), NoHandle)
    ELSE IF JsonParse(e).err # NoError
    THEN Parsed(Message("Invalid JSON in FIREBASE_SERVICE_ACCOUNT environment variable", "", -1), NoHandle)
    ELSE LET projectId == ProjectIdOf(JsonParse(e).value)
         IN  IF projectId.err # NoError THEN Parsed(projectId.err, NoHandle)
             ELSE IF NotNonEmptyString(projectId.value)
             THEN Parsed(Message("FIREBASE_SERVICE_ACCOUNT must include a project_id", "", -1), NoHandle)
             ELSE Parsed(NoError, Handle(projectId.value.s, serial))

\* The module after a call: what the call returned or threw, the cache, and
\* the handles constructed so far.
Client(outcome, cache, made) == [outcome |-> outcome, cache |-> cache, made |-> made]

\* Plausible slip: a handle made on every call.
getFirestoreAnew(e, cache, made) ==
    LET init == initializeFirestore(e, Len(made) + 1)
    IN  IF init.err # NoError THEN Client(init, cache, made)
        ELSE Client(init, init.value, Append(made, init.value))

getFirestore(e, cache, made) ==
    IF cache = NoHandle
    THEN LET init == initializeFirestore(e, Len(made) + 1)
         IN  IF init.err # NoError THEN Client(init, cache, made)
             ELSE Client(init, init.value, Append(made, init.value))
    ELSE Client(Parsed(NoError, cache), cache, made)

Got(n, outcome) == [n |-> n, err |-> outcome.err, value |-> outcome.value]
NoCall == Got(0, Parsed(NoError, NoHandle))

ClientIdle ==
    /\ env = <<>>
    /\ cachedFirestore = <<>>
    /\ constructed = <<>>
    /\ got = <<>>

EnvValues ==
    {Unset, EnvValue("empty", Undefined), EnvValue("garbage", Undefined), EnvValue("null", Undefined),
     EnvValue("number", Undefined),
     EnvValue("object", Undefined), EnvValue("object", Num(7)), EnvValue("object", Str("  ")),
     EnvValue("object", Str("p1")), EnvValue("object", Str("p2"))}

ClientInit ==
    /\ env \in EnvValues
    /\ cachedFirestore = NoHandle
    /\ constructed = <<>>
    /\ got = NoCall

\* A call of getFirestore(), from any of the entry points.
CallGetFirestore ==
    LET after == getFirestore(env, cachedFirestore, constructed)
    IN  /\ got' = Got(1 - got.n, after.outcome)
        /\ cachedFirestore' = after.cache
        /\ constructed' = after.made
        /\ UNCHANGED env
        /\ UNCHANGED <<statsVars, sanVars, schemaVars, execVars, pool, sseVars, httpVars>>

\* The environment variable is set, changed or removed between calls.
SetEnv(e) ==
    /\ env' = e
    /\ env' # env
    /\ UNCHANGED <<cachedFirestore, constructed, got>>
    /\ UNCHANGED <<statsVars, sanVars, schemaVars, execVars, pool, sseVars, httpVars>>

ClientNext ==
    \/ CallGetFirestore
    \/ \E e \in EnvValues : SetEnv(e)

(***************************************************************************)
(* The Streamable HTTP entry point: one transport, connected once when the *)
(* module is loaded; handleMcpRequest serves GET, POST and DELETE on /mcp. *)
(***************************************************************************)
MaxRequests == 2

RequestSlots == 1..MaxRequests
InternalError == -32603
\* A request in handleMcpRequest: where it is, whether transport.handleRequest
\* was called for it, and the answer written by the catch block (status 0
\* and code 0: none).
McpRequest(method, pc, handed, status, code) ==
    [method |-> method, pc |-> pc, handed |-> handed, status |-> status, code |-> code]
NoRequest == McpRequest("", "none", FALSE, 0, 0)

\* Plausible slip: the outcome of the connect not awaited.
AfterReadyUnawaited(ready, req) == [req EXCEPT !.pc = "awaitHandle", !.handed = TRUE]

\* handleMcpRequest after await serverReady: a rejection goes to the catch
\* block, where no header has been sent yet.
AfterReady(ready, req) ==
    IF ready = "resolved" THEN [req EXCEPT !.pc = "awaitHandle", !.handed = TRUE]
    ELSE [req EXCEPT !.pc = "done", !.status = 500, !.code = InternalError]

\* handleMcpRequest after await transport.handleRequest(req, res, req.body).
AfterHandle(req, ok, headersSent) ==
    IF ok \/ headersSent THEN [req EXCEPT !.pc = "done"]
    ELSE [req EXCEPT !.pc = "done", !.status = 500, !.code = InternalError]

HttpIdle ==
    /\ serverReady = ""
    /\ requests = <<>>
SvcIdle == SseIdle /\ ClientIdle /\ HttpIdle

HttpInit ==
    /\ serverReady = "pending"
    /\ requests = [i \in RequestSlots |-> NoRequest]

\* server.connect(transport) settles.
ConnectSettles(ok) ==
    /\ serverReady = "pending"
    /\ serverReady' = IF ok THEN "resolved" ELSE "rejected"
    /\ UNCHANGED requests
    /\ UNCHANGED <<statsVars, sanVars, schemaVars, execVars, pool, sseVars, clientVars>>

\* app.get / app.post / app.delete on /mcp: handleMcpRequest up to
\* await serverReady.
Arrives(i, method) ==
    /\ requests[i] = NoRequest
    /\ requests' = [requests EXCEPT ![i] = McpRequest(method, "awaitReady", FALSE, 0, 0)]
    /\ UNCHANGED serverReady
    /\ UNCHANGED <<statsVars, sanVars, schemaVars, execVars, pool, sseVars, clientVars>>

\* await serverReady resumes, once the promise has settled.
ReadySettled(i) ==
    /\ requests[i].pc = "awaitReady"
    /\ serverReady # "pending"
    /\ requests' = [requests EXCEPT ![i] = AfterReady(serverReady, requests[i])]
    /\ UNCHANGED serverReady
    /\ UNCHANGED <<statsVars, sanVars, schemaVars, execVars, pool, sseVars, clientVars>>

\* await transport.handleRequest(...) resumes: the transport has answered
\* (ok), or it rejected, with or without headers already sent.
HandleSettled(i, ok, headersSent) ==
    /\ requests[i].pc = "awaitHandle"
    /\ ok => headersSent
    /\ requests' = [requests EXCEPT ![i] = AfterHandle(requests[i], ok, headersSent)]
    /\ UNCHANGED serverReady
    /\ UNCHANGED <<statsVars, sanVars, schemaVars, execVars, pool, sseVars, clientVars>>

\* The exchange is over; the slot serves the next request.
Closes(i) ==
    /\ requests[i].pc = "done"
    /\ requests' = [requests EXCEPT ![i] = NoRequest]
    /\ UNCHANGED serverReady
    /\ UNCHANGED <<statsVars, sanVars, schemaVars, execVars, pool, sseVars, clientVars>>

HttpNext ==
    \/ \E ok \in BOOLEAN : ConnectSettles(ok)
    \/ \E i \in RequestSlots, method \in {"GET", "POST", "DELETE"} : Arrives(i, method)
    \/ \E i \in RequestSlots : ReadySettled(i)
    \/ \E i \in RequestSlots, ok \in BOOLEAN, headersSent \in BOOLEAN : HandleSettled(i, ok, headersSent)
    \/ \E i \in RequestSlots : Closes(i)

(***************************************************************************)
(* Harness of the executor: the database is drawn in ExecInit, the tool    *)
(* names and raw payloads in ExecNext.                                     *)
(***************************************************************************)
MaxDbDocs == 3

ToolNames == {"list_collections", "inspect_collection_schema", "query_firestore", "delete_collection"}

\* The data of the stored documents.
DbFieldMaps ==
    {NoFields, OneField("x", Num(5)), OneField("x", Num(3)), OneField("x", Str("a")),
     OneField("constructor", Num(1))}
DocIds == <<"d1", "d2", "d3", "d4", "d5">>
\* Documents that have a data field named id.
DocsWithIdField ==
    {<<FlatDoc("d1", OneField("id", Str("d9")))>>,
     <<FlatDoc("d1", OneField("x", Num(5))), FlatDoc("d2", OneField("id", Num(7)))>>}
Databases ==
    LET users == {[i \in 1..Len(q) |-> FlatDoc(DocIds[i], q[i])] : q \in SeqsUpTo(DbFieldMaps, MaxDbDocs)}
    IN  {[c \in {} |-> <<>>]} \cup {[c \in {"users"} |-> u] : u \in users}
        \cup {[c \in {"users", "orders"} |-> IF c = "users" THEN u ELSE <<>>] : u \in {v \in users : Len(v) = 1}}
        \cup {[c \in {"users"} |-> u] : u \in DocsWithIdField}

RawFilter(field, operator, value) ==
    [isObj |-> TRUE, field |-> field, operator |-> operator, hasValue |-> TRUE, value |-> value]
RawOrder(field, direction) == [isObj |-> TRUE, field |-> field, direction |-> direction]
ListOf(items) == [kind |-> "array", items |-> items]
RawAggregation(hasCount, count, hasSum, sum, hasAvg, avg) ==
    [kind |-> "object", hasCount |-> hasCount, count |-> count, hasSum |-> hasSum, sum |-> sum,
     hasAvg |-> hasAvg, avg |-> avg]
Fraction == Cell("number", 1, "fraction")

\* Payloads that pass validation.
ValidFilters == {NoList, ListOf(<<RawFilter(Str("x"), Str(">="), Num(3))>>)}
ValidOrders == {NoList, ListOf(<<RawOrder(Str("x"), Str("desc"))>>)}
ValidLimits == {Undefined, Num(1), Num(2)}
ValidAggregations ==
    {NoAggregation,
     RawAggregation(TRUE, Bool(TRUE), FALSE, Undefined, FALSE, Undefined),
     RawAggregation(TRUE, Bool(TRUE), TRUE, Str("x"), TRUE, Str("x")),
     RawAggregation(FALSE, Undefined, TRUE, Str(" x "), FALSE, Undefined)}
ValidArgs ==
    {RawArgs(Str("users"), Undefined, f, o, l, a) :
        f \in ValidFilters, o \in ValidOrders, l \in ValidLimits, a \in ValidAggregations}
    \cup {RawArgs(p, s, NoList, NoList, Undefined, NoAggregation) :
            p \in {Str(" users "), Str("ghost")}, s \in {Undefined, Num(2)}}
    \cup {RawArgs(Str("users"), Num(1), NoList, NoList, Undefined, a) :
            a \in {RawAggregation(TRUE, Num(0), FALSE, Undefined, FALSE, Undefined),
                   RawAggregation(TRUE, Str("yes"), FALSE, Undefined, FALSE, Undefined),
                   RawAggregation(TRUE, Null, FALSE, Undefined, TRUE, Str("x")),
                   RawAggregation(FALSE, Undefined, FALSE, Undefined, FALSE, Undefined)}}
    \cup {RawArgs(Str("users"), Undefined,
                  ListOf(<<RawFilter(Str("x"), Str(">="), Num(3)), RawFilter(Str("x"), Str("!="), Num(5))>>),
                  ListOf(<<RawOrder(Str("x"), Str("asc"))>>), Num(1), NoAggregation),
          RawArgs(Str("users"), Undefined,
                  ListOf(<<RawFilter(Str(" x "), Str("<"), Num(5)), RawFilter(Str("x"), Str("=="), Null)>>),
                  ListOf(<<RawOrder(Str(" x "), Str("desc")), RawOrder(Str("x"), Str("asc"))>>),
                  Undefined, NoAggregation)}

\* Payloads a parser rejects.
Plain == RawArgs(Str("users"), Undefined, NoList, NoList, Undefined, NoAggregation)
InvalidArgs ==
    {NotAnObject,
     [Plain EXCEPT !.collectionPath = Undefined],
     [Plain EXCEPT !.collectionPath = Str("  ")],
     [Plain EXCEPT !.sampleSize = Num(0), !.limit = Num(0)],
     [Plain EXCEPT !.sampleSize = Fraction, !.limit = Str("2")],
     [Plain EXCEPT !.filters = [kind |-> "other", items |-> <<>>]],
     [Plain EXCEPT !.filters = ListOf(<<RawFilter(Str("x"), Str("=="), Num(3)), RawFilter(Str("x"), Str("like"), Num(3))>>)],
     [Plain EXCEPT !.filters = ListOf(<<[RawFilter(Str("x"), Str("=="), Undefined) EXCEPT !.hasValue = FALSE]>>)],
     [Plain EXCEPT !.filters = ListOf(<<[RawFilter(Undefined, Undefined, Undefined) EXCEPT !.isObj = FALSE]>>)],
     [Plain EXCEPT !.filters = ListOf(<<RawFilter(Str("x"), Str("~="), Num(1))>>)],
     [Plain EXCEPT !.filters = ListOf(<<RawFilter(Str("  "), Str("=="), Num(1))>>)],
     [Plain EXCEPT !.filters = ListOf(<<RawFilter(Str("x"), Str("=="), Num(3)), RawFilter(Num(1), Str("=="), Num(3))>>),
                   !.orderBy = ListOf(<<RawOrder(Str("x"), Str("up"))>>)],
     [Plain EXCEPT !.orderBy = ListOf(<<RawOrder(Str("x"), Str("asc")), RawOrder(Str("  "), Str("asc"))>>)],
     [Plain EXCEPT !.orderBy = ListOf(<<[RawOrder(Undefined, Undefined) EXCEPT !.isObj = FALSE]>>)],
     [Plain EXCEPT !.limit = Num(-1)],
     [Plain EXCEPT !.limit = Fraction],
     [Plain EXCEPT !.limit = Null],
     [Plain EXCEPT !.limit = Bool(TRUE), !.sampleSize = Num(-1)],
     [Plain EXCEPT !.orderBy = [kind |-> "other", items |-> <<>>]],
     [Plain EXCEPT !.orderBy = ListOf(<<RawOrder(Str("x"), Str("up"))>>)],
     [Plain EXCEPT !.orderBy = ListOf(<<RawOrder(Num(1), Str("asc"))>>)],
     [Plain EXCEPT !.aggregation = [NoAggregation EXCEPT !.kind = "other"]],
     [Plain EXCEPT !.aggregation = RawAggregation(FALSE, Undefined, TRUE, Num(1), FALSE, Undefined)],
     [Plain EXCEPT !.aggregation = RawAggregation(FALSE, Undefined, FALSE, Undefined, TRUE, Str("  "))]}
RawArgSets == ValidArgs \cup InvalidArgs

\* The invocations: query_firestore with every payload, inspect_collection_schema
\* with the payloads that differ in what it reads, the other names (which read
\* no argument) with three payloads.
Invocations ==
    {<<"query_firestore", a>> : a \in RawArgSets}
    \cup {<<"inspect_collection_schema", a>> :
            a \in {r \in RawArgSets : r.filters = NoList /\ r.orderBy = NoList /\ r.aggregation = NoAggregation}}
    \cup {<<n, a>> : n \in ToolNames \ {"query_firestore", "inspect_collection_schema"},
                     a \in {Plain, NotAnObject, [Plain EXCEPT !.collectionPath = Undefined]}}

ExecIdle ==
    /\ firestore = [c \in {} |-> <<>>]
    /\ call = IdleCall
    /\ dbOps = <<>>
    /\ pool = <<>>

ExecInit ==
    /\ firestore \in Databases
    /\ call = IdleCall
    /\ dbOps = <<>>
    /\ pool = <<>>

ExecNext ==
    \/ \E inv \in Invocations : Invoke(inv[1], inv[2])
    \/ \E ok \in BOOLEAN : ListReturns(ok)
    \/ \E ok \in BOOLEAN : SampleReturns(ok)
    \/ \E ok \in BOOLEAN : CountReturns(ok)
    \/ \E ok \in BOOLEAN : FetchReturns(ok)
    \/ Return

InitExec == ExecInit /\ StatsIdle /\ SanIdle /\ SchemaIdle /\ SvcIdle
SpecExec == InitExec /\ [][ExecNext]_vars


(***************************************************************************)
(* Concurrent invocations of execute on one executor.  Each slot of pool   *)
(* holds one run: its call, the operations it has issued, and oks, the     *)
(* outcomes of its awaited operations so far.  A step of a slot is the     *)
(* step of execute between two awaits; steps of different slots interleave *)
(* freely.                                                                 *)
(***************************************************************************)
MaxCalls == 2

Slots == 1..MaxCalls
Slot(run, oks) == [call |-> run.call, dbOps |-> run.dbOps, oks |-> oks]
IdleSlot == Slot(Run(IdleCall, <<>>), <<>>)

\* Plausible slip: schema and examples kept on the executor, so that a call
\* collects into what the inspect calls that ended before it left there.
RECURSIVE SchemaLeftBy(_, _, _)
SchemaLeftBy(runs, db, ended) ==
    IF ended = {} THEN NewAccumulator
    ELSE LET j == CHOOSE k \in ended : \A m \in ended : k <= m
         IN  SchemaOfDocs(SchemaLeftBy(runs, db, ended \ {j}), RunQuery(db, runs[j].call.query))
SchemaOnExecutor(runs, db, i) ==
    SchemaLeftBy(runs, db, {j \in DOMAIN runs \ {i} :
                              runs[j].call.name = "inspect_collection_schema" /\ runs[j].call.pc = "done"
                              /\ runs[j].call.fault = ""})

\* const schema = {}; const examples = {}: created inside the call.
SchemaOfCall(runs, db, i) == NewAccumulator

\* The databases and the invocations of the concurrent runs.
ConcDatabases ==
    {[c \in {"users"} |-> <<FlatDoc("d1", OneField("x", Num(5))), FlatDoc("d2", OneField("y", Num(3)))>>],
     [c \in {"users"} |-> <<FlatDoc("d1", OneField("x", Str("a")))>>]}
ConcInvocations ==
    {<<"list_collections", Plain>>,
     <<"delete_collection", Plain>>,
     <<"inspect_collection_schema", Plain>>,
     <<"inspect_collection_schema", [Plain EXCEPT !.sampleSize = Num(1)]>>,
     <<"inspect_collection_schema", [Plain EXCEPT !.sampleSize = Num(0)]>>,
     <<"query_firestore", [Plain EXCEPT !.limit = Num(1),
                                        !.aggregation = RawAggregation(TRUE, Bool(TRUE), TRUE, Str("x"), FALSE, Undefined)]>>,
     <<"query_firestore", [Plain EXCEPT !.filters = ListOf(<<RawFilter(Str("x"), Str("=="), Num(5))>>)]>>}

ConcIdle == pool = <<>>
ConcInit ==
    /\ firestore \in ConcDatabases
    /\ pool = [i \in Slots |-> IdleSlot]
    /\ call = IdleCall
    /\ dbOps = <<>>

ConcInvoke(i, name, rawArgs) ==
    /\ pool[i].call.pc = "idle"
    /\ pool' = [pool EXCEPT ![i] = Slot(InvokeStep(pool[i], name, rawArgs), <<>>)]
    /\ UNCHANGED <<statsVars, sanVars, schemaVars, execVars, svcVars>>

ConcListReturns(i, ok) ==
    /\ pool[i].call.pc = "awaitList"
    /\ pool' = [pool EXCEPT ![i] = Slot(ListStep(pool[i], firestore, ok), Append(pool[i].oks, ok))]
    /\ UNCHANGED <<statsVars, sanVars, schemaVars, execVars, svcVars>>

ConcSampleReturns(i, ok) ==
    /\ pool[i].call.pc = "awaitSample"
    /\ pool' = [pool EXCEPT ![i] = Slot(SampleStep(pool[i], firestore, ok, SchemaOfCall(pool, firestore, i)),
                                        Append(pool[i].oks, ok))]
    /\ UNCHANGED <<statsVars, sanVars, schemaVars, execVars, svcVars>>

ConcCountReturns(i, ok) ==
    /\ pool[i].call.pc = "awaitCount"
    /\ pool' = [pool EXCEPT ![i] = Slot(CountStep(pool[i], firestore, ok), Append(pool[i].oks, ok))]
    /\ UNCHANGED <<statsVars, sanVars, schemaVars, execVars, svcVars>>

ConcFetchReturns(i, ok) ==
    /\ pool[i].call.pc = "awaitFetch"
    /\ pool' = [pool EXCEPT ![i] = Slot(FetchStep(pool[i], firestore, ok), Append(pool[i].oks, ok))]
    /\ UNCHANGED <<statsVars, sanVars, schemaVars, execVars, svcVars>>

ConcReturn(i) ==
    /\ pool[i].call.pc = "done"
    /\ pool' = [pool EXCEPT ![i] = IdleSlot]
    /\ UNCHANGED <<statsVars, sanVars, schemaVars, execVars, svcVars>>

ConcNext ==
    \/ \E i \in Slots, inv \in ConcInvocations : ConcInvoke(i, inv[1], inv[2])
    \/ \E i \in Slots, ok \in BOOLEAN : ConcListReturns(i, ok)
    \/ \E i \in Slots, ok \in BOOLEAN : ConcSampleReturns(i, ok)
    \/ \E i \in Slots, ok \in BOOLEAN : ConcCountReturns(i, ok)
    \/ \E i \in Slots, ok \in BOOLEAN : ConcFetchReturns(i, ok)
    \/ \E i \in Slots : ConcReturn(i)

InitConc == ConcInit /\ StatsIdle /\ SanIdle /\ SchemaIdle /\ SvcIdle
SpecConc == InitConc /\ [][ConcNext]_vars

InitSse == SseInit /\ StatsIdle /\ SanIdle /\ SchemaIdle /\ ExecIdle /\ ClientIdle /\ HttpIdle
SpecSse == InitSse /\ [][SseNext]_vars

InitClient == ClientInit /\ StatsIdle /\ SanIdle /\ SchemaIdle /\ ExecIdle /\ SseIdle /\ HttpIdle
SpecClient == InitClient /\ [][ClientNext]_vars

InitHttp == HttpInit /\ StatsIdle /\ SanIdle /\ SchemaIdle /\ ExecIdle /\ SseIdle /\ ClientIdle
SpecHttp == InitHttp /\ [][HttpNext]_vars

InitSchema == SchemaInit /\ StatsIdle /\ SanIdle /\ ExecIdle /\ SvcIdle
SpecSchema == InitSchema /\ [][SchemaStep]_vars

InitSanitize == SanInit /\ StatsIdle /\ SchemaIdle /\ ExecIdle /\ SvcIdle
SpecSanitize == InitSanitize /\ [][SanNext]_vars

InitStats == StatsInit /\ SanIdle /\ SchemaIdle /\ ExecIdle /\ SvcIdle
SpecStats == InitStats /\ [][RunStats]_vars

(***************************************************************************)
(* Properties of collectNumericStats (checked under SpecStats).            *)
(***************************************************************************)
HasOwnField(doc, field) == field \in DOMAIN DocData(doc).f
StHaving == {i \in 1..Len(stDocs) : HasOwnField(stDocs[i], stField)}
StFinite == {i \in 1..Len(stDocs) : IsFiniteNumber(GetProp(DocData(stDocs[i]), stField))}
RECURSIVE SumAt(_, _, _)
SumAt(docs, field, S) ==
    IF S = {} THEN 0
    ELSE LET i == CHOOSE j \in S : TRUE
         IN  GetProp(DocData(docs[i]), field).n + SumAt(docs, field, S \ {i})

\* C5: collectNumericStats partitions the documents three ways, for every
\* list of documents and every field name: a document whose field is a
\* finite number adds its value to sum and 1 to validCount, a document whose
\* field is present but not a finite number adds 1 to invalidCount only, a
\* document without the field changes nothing; so validCount + invalidCount
\* is the number of documents that have the field.
C5_ThreeWayPartition ==
    stPc = "done" =>
        /\ stOut.validCount = Cardinality(StHaving \cap StFinite)
        /\ stOut.sum = SumAt(stDocs, stField, StHaving \cap StFinite)
        /\ stOut.invalidCount = Cardinality(StHaving \ StFinite)
        /\ stOut.validCount + stOut.invalidCount = Cardinality(StHaving)

\* C6: average = sum / validCount whenever some document has a finite
\* numeric value for the field, and average = 0 whenever none has (the empty
\* list, only non-numeric or missing values).
C6_Average ==
    stPc = "done" =>
        IF StFinite # {}
        THEN /\ stOut.average.den > 0
             /\ stOut.average.num * Cardinality(StFinite) = SumAt(stDocs, stField, StFinite) * stOut.average.den
             /\ stOut.average.num * stOut.validCount = stOut.sum * stOut.average.den
        ELSE stOut.average.num = 0 /\ stOut.average.den # 0

\* A call whose documents hold two finite numbers and one non-numeric value.
C6_Witness ==
    stPc = "done" /\ stOut.validCount = 2 /\ stOut.invalidCount = 1 /\ stOut.sum = 8

(***************************************************************************)
(* Properties of FirestoreToolExecutor.execute (checked under SpecExec).   *)
(***************************************************************************)
KnownTools == {"list_collections", "inspect_collection_schema", "query_firestore"}
ResultText == call.result.content[1].text
Finished(name) == call.pc = "done" /\ call.name = name /\ ~call.result.thrown /\ ~call.result.isError

\* C1: execute never throws to its caller: for every tool name and payload,
\* and for every failure of validation or of a database operation, it
\* returns a result whose content is one text block and whose isError flag
\* is set exactly when a failure occurred; an unknown tool name yields an
\* error result whose text names that tool.
C1_AlwaysAResult ==
    call.pc = "done" =>
        /\ ~call.result.thrown
        /\ Len(call.result.content) = 1
        /\ call.result.content[1].type = "text"
        /\ call.result.isError <=> (call.fault # "")
        /\ (call.name = "query_firestore" /\ call.rawArgs \in InvalidArgs)
              => call.result.isError /\ call.fault = "validation"
        /\ call.name \notin KnownTools
              => /\ call.result.isError
                 /\ ResultText.head.msg = "Unknown tool: "
                 /\ ResultText.head.arg = call.name

\* A database operation rejected, and the caller got an error result.
C1_Witness ==
    /\ call.pc = "done"
    /\ call.fault = "database"
    /\ dbOps # <<>>
    /\ call.result.isError
    /\ call.result.content[1].text.head = DatabaseError

\* C2: for every valid query_firestore payload that provides limit, the
\* number of document objects rendered in the result, and the N of the
\* "Found N documents." line, never exceed limit.
C2_LimitBoundsRendered ==
    (Finished("query_firestore") /\ call.rawArgs.limit # Undefined) =>
        /\ Len(ResultText.docs) <= call.rawArgs.limit.n
        /\ ResultText.head.idx <= call.rawArgs.limit.n

\* Three stored documents, no filter, limit 2: two documents rendered.
C2_Witness ==
    /\ Finished("query_firestore")
    /\ call.rawArgs.limit = Num(2)
    /\ call.rawArgs.filters = NoList
    /\ Len(CollectionDocs(firestore, call.args.collectionPath)) = 3
    /\ Len(ResultText.docs) = 2
    /\ ResultText.head.idx = 2

\* The stored documents of the queried collection that match every filter of
\* the call and carry every field it orders by (by index).
AsWhere(filter) == QueryOp("where", filter.field, filter.operator, filter.value, 0)
AsOrder(order) == QueryOp("orderBy", order.field, order.direction, Undefined, 0)
Stored == CollectionDocs(firestore, call.args.collectionPath)
FilteredSet ==
    {i \in DOMAIN Stored :
        /\ \A k \in DOMAIN call.args.filters : Matches(Stored[i], AsWhere(call.args.filters[k]))
        /\ \A k \in DOMAIN call.args.orderBy : HasOwnField(Stored[i], call.args.orderBy[k].field)}

\* C3: when aggregation.count is requested, the reported aggregate count is
\* the number of documents matching all filters, independent of limit: the
\* full filtered-set size even where the filtered set is larger than limit.
C3_CountIgnoresLimit ==
    (Finished("query_firestore") /\ call.args.aggregation.count /\ call.args.orderBy = <<>>) =>
        ResultText.aggregate = Cardinality(FilteredSet)

\* The sets of documents a query with the call's filters, order and limit
\* can fetch: the first limit documents of the filtered set in the order asked.
FetchedSets ==
    LET orders == [k \in DOMAIN call.args.orderBy |-> AsOrder(call.args.orderBy[k])]
        size == IF call.args.limit # 0 /\ call.args.limit < Cardinality(FilteredSet)
                THEN call.args.limit ELSE Cardinality(FilteredSet)
    IN  {S \in SUBSET FilteredSet :
            /\ Cardinality(S) = size
            /\ \A i \in S, j \in FilteredSet \ S :
                  /\ ~Before(Stored[j], Stored[i], orders)
                  /\ Before(Stored[i], Stored[j], orders) \/ i < j}
\* A sum or average line is the one computed over the documents S.
StatLineOver(line, S) ==
    LET finite == {i \in S : IsFiniteNumber(GetProp(DocData(Stored[i]), line.field))}
        ignored == {i \in S : HasOwnField(Stored[i], line.field)} \ finite
        total == SumAt(Stored, line.field, finite)
    IN  /\ line.label = "Sum of" => line.value = Ratio(total, 1)
        /\ line.label = "Average of" =>
              IF finite = {} THEN line.value.num = 0 /\ line.value.den # 0
              ELSE line.value.den > 0 /\ line.value.num * Cardinality(finite) = total * line.value.den
        /\ IF ignored = {} THEN line.note = <<>>
           ELSE line.note # <<>> /\ line.note[1] = Cardinality(ignored)

\* C4: each requested sum and avg is computed over exactly the documents
\* fetched by the (possibly limited) query: a matching document cut off by
\* limit adds to neither the sum, the average nor the ignored count.
C4_StatsOverFetched ==
    Finished("query_firestore") =>
        /\ call.rawArgs.aggregation.hasSum =>
              \E k \in DOMAIN ResultText.stats : ResultText.stats[k].label = "Sum of"
        /\ call.rawArgs.aggregation.hasAvg =>
              \E k \in DOMAIN ResultText.stats : ResultText.stats[k].label = "Average of"
        /\ \E S \in FetchedSets :
              /\ Cardinality(S) = Len(ResultText.docs)
              /\ \A k \in DOMAIN ResultText.stats : StatLineOver(ResultText.stats[k], S)

\* Stored values 5, 3 and "a", limit 1: the sum is 5, nothing is ignored.
C4_Witness ==
    /\ Finished("query_firestore")
    /\ call.rawArgs.limit = Num(1)
    /\ call.args.filters = <<>> /\ call.args.orderBy = <<>>
    /\ Len(Stored) = 3
    /\ DocData(Stored[1]).f = OneField("x", Num(5))
    /\ DocData(Stored[2]).f = OneField("x", Num(3))
    /\ DocData(Stored[3]).f = OneField("x", Str("a"))
    /\ Len(ResultText.stats) = 2
    /\ ResultText.stats[1].value = Ratio(5, 1)
    /\ ResultText.stats[1].note = <<>>
    /\ ResultText.stats[2].value = Ratio(5, 1)

(***************************************************************************)
(* Properties of sanitizeFirestoreValue (checked under SpecSanitize).      *)
(***************************************************************************)
\* The value a path of keys leads to in the argument.
RECURSIVE Resolve(_, _, _)
Resolve(h, c, p) ==
    IF p = <<>> THEN c
    ELSE LET o == h[c.n]
             next == IF o.cls = "Array"
                     THEN o.e[CHOOSE i \in DOMAIN o.e : ToString(i - 1) = Head(p)]
                     ELSE o.f[Head(p)]
         IN  Resolve(h, next, Tail(p))
ProperPrefixes(p) == {SubSeq(p, 1, k) : k \in 0..(Len(p) - 1)}

\* Only plain objects and arrays holding numbers and each other: no toJSON,
\* no constructor property.
PlainGraph(h) ==
    \A i \in DOMAIN h :
        /\ h[i].hook = "none"
        /\ "constructor" \notin DOMAIN h[i].f
        /\ \A c \in CellsOf(h[i]) : c.t \in {"ref", "number"}

\* C7: an object is rendered as "[Circular]" exactly when it is already
\* being sanitized on the current recursive path (it is its own ancestor
\* in the traversal); a second, non-cyclic reference to an object sanitized
\* elsewhere is rendered in full.
C7_CircularOnlyOnPath ==
    saPc = "done" /\ saOut.err = "" /\ PlainGraph(saHeap) =>
        \A e \in saOut.out :
            LET c == Resolve(saHeap, saRoot, e.p)
            IN  c.t = "ref" /\ saHeap[c.n].cls = "Object" =>
                    (e.v = Circular <=>
                        \E q \in ProperPrefixes(e.p) : Resolve(saHeap, saRoot, q) = c)

\* C8: sanitizeFirestoreValue never throws, whatever the input shape (an
\* invalid date, a timestamp whose conversion throws, a geographic point or
\* reference with missing parts, an object whose toJSON throws); stated here
\* for the arguments without cycles.
C8_NeverThrows ==
    saPc = "done" /\ IsTree(saHeap) => saOut.err = ""

\* Plain JSON: a tree of null, numbers, strings, booleans, arrays and plain
\* objects.
IsJsonCell(c) == c.t \in {"null", "string", "boolean"} \/ IsFiniteNumber(c)
IsJson(h, root) ==
    /\ IsTree(h)
    /\ root.t = "ref" \/ IsJsonCell(root)
    /\ \A i \in DOMAIN h :
        /\ h[i].hook = "none"
        /\ \A c \in CellsOf(h[i]) : c.t = "ref" \/ IsJsonCell(c)
\* The argument itself as a set of nodes.
RECURSIVE TreeOf(_, _, _)
TreeOf(h, c, path) ==
    IF c.t # "ref" THEN {Entry(path, c)}
    ELSE LET o == h[c.n]
         IN  IF o.cls = "Array"
             THEN {Entry(path, ArrNode)}
                  \cup UNION {TreeOf(h, o.e[i], Append(path, ToString(i - 1))) : i \in DOMAIN o.e}
             ELSE {Entry(path, ObjNode)}
                  \cup UNION {TreeOf(h, o.f[k], Append(path, k)) : k \in DOMAIN o.f}

\* C9: on plain JSON the sanitizer returns a structurally equal value (and
\* is therefore idempotent on it).
C9_JsonUnchanged ==
    saPc = "done" /\ IsJson(saHeap, saRoot) =>
        saOut.err = "" /\ saOut.out = TreeOf(saHeap, saRoot, <<>>)

(***************************************************************************)
(* Properties of the schema inferencer (checked under SpecSchema).         *)
(***************************************************************************)
SeqRange(q) == {q[i] : i \in DOMAIN q}

\* Every field of a document with its joined path and its type tag, fields
\* of nested values tagged object included, array elements not.
RECURSIVE FieldChains(_, _, _)
FieldChains(h, c, prefix) ==
    UNION {LET v == EntryValue(h, c, k)
               path == JoinPath(prefix, k)
               tag == describeValueType(h, v)
           IN  {[path |-> path, tag |-> tag]}
               \cup (IF tag = "object" THEN FieldChains(h, v, path) ELSE {}) :
           k \in SeqRange(EntryKeys(h, c))}
ProcessedChains == UNION {FieldChains(scDocs[i].h, Ref(1), <<>>) : i \in 1..scIdx}
ExampleDoc ==
    Doc("d", SchemaDocHeap(OneField("a", Ref(2)) @@ OneField("c", Ref(3)), OneField("b", Num(1))))

\* C10: the inferencer records one path per field of every sampled document,
\* nested keys joined with '.', descending only into values tagged object
\* and never into arrays; the one document {a: {b: 1}, c: [1, 2]} yields
\* exactly a (object), a.b (number), c (array).
C10_PathPerField ==
    /\ \A ch \in ProcessedChains :
        /\ ch.path \in DOMAIN scAcc.schema
        /\ ch.tag \in SeqRange(scAcc.schema[ch.path])
    /\ \A p \in DOMAIN scAcc.schema :
        \A tag \in SeqRange(scAcc.schema[p]) : [path |-> p, tag |-> tag] \in ProcessedChains
    /\ scDocs = <<ExampleDoc>> /\ scIdx = 1 =>
        scAcc.schema = (<<"a">> :> <<"object">>) @@ (<<"a", "b">> :> <<"number">>) @@ (<<"c">> :> <<"array">>)

\* The encounters of one document in processing order: each field with its
\* joined path, its type tag and its value, a nested value tagged object
\* right after its parent.
RECURSIVE EncounterSeq(_, _, _, _)
EncounterSeq(h, c, keys, prefix) ==
    IF keys = <<>> THEN <<>>
    ELSE LET v == EntryValue(h, c, Head(keys))
             path == JoinPath(prefix, Head(keys))
             tag == describeValueType(h, v)
         IN  <<[path |-> path, tag |-> tag, ex |-> [h |-> h, v |-> v]]>>
             \o (IF tag = "object" THEN EncounterSeq(h, v, EntryKeys(h, v), path) ELSE <<>>)
             \o EncounterSeq(h, c, Tail(keys), prefix)
RECURSIVE EncountersUpTo(_)
EncountersUpTo(n) ==
    IF n = 0 THEN <<>>
    ELSE EncountersUpTo(n - 1) \o EncounterSeq(scDocs[n].h, Ref(1), EntryKeys(scDocs[n].h, Ref(1)), <<>>)
FirstEncounter(enc, path) ==
    enc[CHOOSE i \in DOMAIN enc : enc[i].path = path /\ \A j \in 1..(i - 1) : enc[j].path # path]

\* C11: after the accumulator has processed any sequence of sampled
\* documents, for every field path the retained example is the value of the
\* first encounter of that path in processing order, the path's type set is
\* exactly the set of type tags of all its encounters, and the paths with an
\* example are the paths with a type set.
C11_FirstExampleAllTypes ==
    LET enc == EncountersUpTo(scIdx)
    IN  /\ DOMAIN scAcc.examples = DOMAIN scAcc.schema
        /\ DOMAIN scAcc.schema = {enc[i].path : i \in DOMAIN enc}
        /\ \A p \in DOMAIN scAcc.schema :
              /\ scAcc.examples[p] = FirstEncounter(enc, p).ex
              /\ SeqRange(scAcc.schema[p]) = {enc[i].tag : i \in {j \in DOMAIN enc : enc[j].path = p}}

\* The tag the rules give a value, by what the value is: null, undefined,
\* array, timestamp (a Date or a native Timestamp), geopoint (a native
\* GeoPoint), reference (a native DocumentReference), object (any other
\* object: a map, a binary blob), else the primitive type name.
RuleTag(h, c) ==
    CASE c.t = "null" -> "null"
      [] c.t = "undefined" -> "undefined"
      [] c.t = "ref" /\ h[c.n].cls = "Array" -> "array"
      [] c.t \in {"Date", "Timestamp"} -> "timestamp"
      [] c.t = "GeoPoint" -> "geopoint"
      [] c.t = "DocumentReference" -> "reference"
      [] c.t \in {"ref", "Buffer"} -> "object"
      [] OTHER -> c.t
\* The fields of a document with the tags the rules give, descending into
\* the values the rules tag object.
RECURSIVE RuleChains(_, _, _)
RuleChains(h, c, prefix) ==
    UNION {LET v == EntryValue(h, c, k)
               path == JoinPath(prefix, k)
           IN  {[path |-> path, tag |-> RuleTag(h, v)]}
               \cup (IF RuleTag(h, v) = "object" THEN RuleChains(h, v, path) ELSE {}) :
           k \in SeqRange(EntryKeys(h, c))}
\* Every value held in a document.
DocValues(h) ==
    UNION {{h[i].f[k] : k \in DOMAIN h[i].f} \cup {h[i].e[j] : j \in DOMAIN h[i].e} : i \in DOMAIN h}

\* C12: describeValueType assigns every value exactly one tag, by the first
\* matching rule in the order null, undefined, array, timestamp, geopoint,
\* reference, object, else the primitive type name; only a value tagged
\* object is descended into, so timestamps, geographic points and
\* references are never expanded into sub-paths.
C12_TagByFirstRule ==
    scAcc.err = "" =>
        /\ \A i \in 1..scIdx : \A v \in DocValues(scDocs[i].h) :
              /\ describeValueType(scDocs[i].h, v) = RuleTag(scDocs[i].h, v)
              /\ SchemaDescends(scDocs[i].h, v) <=> (RuleTag(scDocs[i].h, v) = "object")
        /\ LET chains == UNION {RuleChains(scDocs[i].h, Ref(1), <<>>) : i \in 1..scIdx}
           IN  /\ \A ch \in chains :
                     ch.path \in DOMAIN scAcc.schema /\ ch.tag \in SeqRange(scAcc.schema[ch.path])
               /\ \A p \in DOMAIN scAcc.schema : \A tag \in SeqRange(scAcc.schema[p]) :
                     [path |-> p, tag |-> tag] \in chains

(***************************************************************************)
(* Properties of the argument validator (checked under SpecExec).          *)
(***************************************************************************)
\* A value that is not a string, or a string of blanks only.
BlankStrings == {"", "  "}
NotAField(c) == c.t # "string" \/ c.s \in BlankStrings
TenOperators == {"==", "!=", "<", "<=", ">", ">=", "array-contains", "array-contains-any", "in", "not-in"}
\* What makes an element of filters, or of orderBy, invalid, and the
\* property of the element that is at fault ("" when it is not an object).
BadFilter(item) == ~item.isObj \/ NotAField(item.field) \/ item.operator.t # "string" \/ item.operator.s \notin TenOperators
BadOrder(item) == ~item.isObj \/ NotAField(item.field) \/ item.direction.t # "string" \/ item.direction.s \notin {"asc", "desc"}
FilterFault(item) == IF ~item.isObj THEN "" ELSE IF NotAField(item.field) THEN "field" ELSE "operator"
OrderFault(item) == IF ~item.isObj THEN "" ELSE IF NotAField(item.field) THEN "field" ELSE "direction"
FirstBad(items, Bad(_)) == CHOOSE i \in DOMAIN items : Bad(items[i]) /\ \A j \in 1..(i - 1) : ~Bad(items[j])
\* A query_firestore call has ended whose payload is an object with a usable
\* collectionPath.
QueryEnded ==
    /\ call.pc = "done" /\ call.name = "query_firestore"
    /\ call.rawArgs.isObj /\ ~NotAField(call.rawArgs.collectionPath)
Rejected == call.result.isError /\ call.fault = "validation" /\ dbOps = <<>>
ErrorHead == call.result.content[1].text.head

PositiveInteger(c) == c.t = "number" /\ c.s = "" /\ c.n >= 1
FiltersValid ==
    /\ call.rawArgs.filters.kind \in {"absent", "array"}
    /\ \A i \in DOMAIN call.rawArgs.filters.items :
          ~BadFilter(call.rawArgs.filters.items[i]) /\ call.rawArgs.filters.items[i].hasValue
OrderByValid ==
    /\ call.rawArgs.orderBy.kind \in {"absent", "array"}
    /\ \A i \in DOMAIN call.rawArgs.orderBy.items : ~BadOrder(call.rawArgs.orderBy.items[i])
LimitValid == call.rawArgs.limit = Undefined \/ PositiveInteger(call.rawArgs.limit)
AggregationValid ==
    /\ call.rawArgs.aggregation.kind \in {"absent", "object"}
    /\ call.rawArgs.aggregation.hasSum => ~NotAField(call.rawArgs.aggregation.sum)
    /\ call.rawArgs.aggregation.hasAvg => ~NotAField(call.rawArgs.aggregation.avg)
RestValid == OrderByValid /\ LimitValid /\ AggregationValid

\* C14: a filter element without a value key is rejected as missing the
\* value property, while one whose value key is present with value null is
\* accepted and passed to the query with value null: the key's presence
\* decides, not the value.
C14_ValueKeyPresence ==
    (QueryEnded /\ call.rawArgs.filters.kind = "array"
                /\ \A i \in DOMAIN call.rawArgs.filters.items : ~BadFilter(call.rawArgs.filters.items[i])) =>
        LET fs == call.rawArgs.filters.items
            missing == {i \in DOMAIN fs : ~fs[i].hasValue}
        IN  /\ missing # {} =>
                  /\ Rejected
                  /\ ErrorHead.arg = "value"
                  /\ ErrorHead.msg = "filters[i] must include a value property."
                  /\ ErrorHead.idx + 1 \in missing /\ \A j \in missing : ErrorHead.idx + 1 <= j
            /\ (missing = {} /\ RestValid) =>
                  /\ call.fault # "validation"
                  /\ \A i \in DOMAIN fs : OpsOf(call.query, "where")[i].value = fs[i].value
                  /\ \A k \in DOMAIN dbOps : OpsOf(dbOps[k].query, "where") = OpsOf(call.query, "where")

\* A call with the filter x == null went through to the database.
C14_Witness ==
    /\ Finished("query_firestore")
    /\ \E i \in DOMAIN call.rawArgs.filters.items :
          /\ call.rawArgs.filters.items[i].hasValue
          /\ call.rawArgs.filters.items[i].value = Null
          /\ OpsOf(call.query, "where")[i].value = Null
    /\ dbOps # <<>>

\* C15: query_firestore accepts limit only when it is absent or a positive
\* integer: 0, a negative number, a non-integer such as 1.5 and a non-number
\* are rejected with an error result; an absent limit is accepted and means
\* no limit operation is applied to the query.
C15_LimitValidation ==
    (call.pc = "done" /\ call.name = "query_firestore") =>
        /\ (call.rawArgs.isObj /\ ~LimitValid) => Rejected
        /\ (QueryEnded /\ FiltersValid /\ OrderByValid /\ ~LimitValid) =>
              ErrorHead.msg = "limit must be a positive integer when provided."
        /\ (QueryEnded /\ FiltersValid /\ OrderByValid /\ AggregationValid /\ LimitValid) =>
              /\ call.fault # "validation"
              /\ \A k \in DOMAIN dbOps :
                    OpsOf(dbOps[k].query, "limit") =
                        IF call.rawArgs.limit = Undefined THEN <<>>
                        ELSE <<QueryOp("limit", "", "", Undefined, call.rawArgs.limit.n)>>

\* limit 1.5 was rejected.
C15_Witness ==
    /\ QueryEnded /\ Rejected
    /\ call.rawArgs.limit = Fraction
    /\ ErrorHead.msg = "limit must be a positive integer when provided."

\* C16: inspect_collection_schema fails with an error result unless
\* collectionPath is a string that is non-blank after trimming; sampleSize,
\* when present, must be a positive integer or the call fails, and when
\* absent it is 10; on success the read uses the trimmed collectionPath and
\* samples at most sampleSize documents.
C16_InspectValidation ==
    (call.pc = "done" /\ call.name = "inspect_collection_schema") =>
        LET pathOk == call.rawArgs.isObj /\ ~NotAField(call.rawArgs.collectionPath)
            sizeOk == call.rawArgs.sampleSize = Undefined \/ PositiveInteger(call.rawArgs.sampleSize)
            size == IF call.rawArgs.sampleSize = Undefined THEN 10 ELSE call.rawArgs.sampleSize.n
            path == Trim(call.rawArgs.collectionPath.s)
        IN  /\ ~pathOk => Rejected
            /\ (call.rawArgs.isObj /\ ~NotAField(call.rawArgs.collectionPath)) =>
                  path \notin BlankStrings /\ path \notin {" users ", " x "}
            /\ ~sizeOk => Rejected
            /\ (pathOk /\ ~sizeOk) => ErrorHead.msg = "sampleSize must be a positive integer when provided."
            /\ (pathOk /\ sizeOk) =>
                  /\ call.fault # "validation"
                  /\ dbOps = <<DbOp("get", [coll |-> path, ops |-> <<QueryOp("limit", "", "", Undefined, size)>>])>>
            /\ (~call.result.isError /\ CollectionDocs(firestore, path) # <<>>) =>
                  /\ ResultText.head.arg = path
                  /\ ResultText.head.idx <= size
                  /\ ResultText.head.idx = IF Len(CollectionDocs(firestore, path)) < size
                                           THEN Len(CollectionDocs(firestore, path)) ELSE size

\* " users " with sampleSize 2 on three stored documents: two sampled from users.
C16_Witness ==
    /\ Finished("inspect_collection_schema")
    /\ call.rawArgs.collectionPath = Str(" users ")
    /\ call.rawArgs.sampleSize = Num(2)
    /\ Len(CollectionDocs(firestore, "users")) = 3
    /\ ResultText.head.arg = "users"
    /\ ResultText.head.idx = 2

\* The values Boolean() turns into false.
Falsy == {Undefined, Null, Bool(FALSE), Num(0), Str(""), NaN}
CountOps == {k \in DOMAIN dbOps : dbOps[k].op = "count"}

\* C17: a validated aggregation is either absent or has at least one of the
\* keys count, sum, avg: an object with none of them is normalized to no
\* aggregation (the call behaves as if aggregation had been omitted), count
\* is coerced to a boolean, and a sum or avg that is not a non-blank string
\* rejects the call.
C17_AggregationNormalized ==
    (QueryEnded /\ FiltersValid /\ OrderByValid /\ LimitValid /\ call.rawArgs.aggregation.kind = "object") =>
        LET agg == call.rawArgs.aggregation
            omitted == parseQueryArgs([call.rawArgs EXCEPT !.aggregation = NoAggregation]).value
        IN  /\ ((agg.hasSum /\ NotAField(agg.sum)) \/ (agg.hasAvg /\ NotAField(agg.avg))) =>
                  /\ Rejected
                  /\ ErrorHead.msg \in {"aggregation.sum must be a non-empty string when provided.",
                                        "aggregation.avg must be a non-empty string when provided."}
            /\ AggregationValid =>
                  /\ call.fault # "validation"
                  /\ call.args.aggregation.defined <=> (agg.hasCount \/ agg.hasSum \/ agg.hasAvg)
                  /\ call.args.aggregation.count \in BOOLEAN
                  /\ call.args.aggregation.count <=> (agg.hasCount /\ agg.count \notin Falsy)
                  /\ (CountOps # {}) <=> (agg.hasCount /\ agg.count \notin Falsy)
            /\ (~agg.hasCount /\ ~agg.hasSum /\ ~agg.hasAvg) =>
                  /\ call.args = omitted
                  /\ CountOps = {}
                  /\ ~call.result.isError => ResultText.aggregate = -1 /\ ResultText.stats = <<>>

\* A call with aggregation {} ended like one without aggregation.
C17_Witness ==
    /\ Finished("query_firestore")
    /\ call.rawArgs.aggregation = RawAggregation(FALSE, Undefined, FALSE, Undefined, FALSE, Undefined)
    /\ ~call.args.aggregation.defined
    /\ ResultText.aggregate = -1 /\ ResultText.stats = <<>>
    /\ ResultText.head.idx >= 1

(***************************************************************************)
(* Properties of the database operations of a call (checked under          *)
(* SpecExec).                                                              *)
(***************************************************************************)
OpKinds == [k \in DOMAIN dbOps |-> dbOps[k].op]

\* C18: when a database operation of an invocation fails (the count or the
\* fetch), the invocation ends with a single error result carrying the
\* failure message: the operation is not retried, no further operation is
\* issued and no partial output is returned; a count that succeeded is not
\* reported when the following fetch fails.
C18_FailureIsTerminal ==
    (call.pc = "done" /\ call.fault = "database") =>
        /\ ~call.result.thrown /\ call.result.isError
        /\ call.result.content = <<[type |-> "text", text |-> PlainText(DatabaseError)]>>
        /\ call.name = "list_collections" => OpKinds = <<"listCollections">>
        /\ call.name = "inspect_collection_schema" => OpKinds = <<"get">>
        /\ call.name = "query_firestore" =>
              IF call.args.aggregation.count
              THEN \/ OpKinds = <<"count">> /\ call.aggregateCount = -1
                   \/ OpKinds = <<"count", "get">> /\ call.aggregateCount >= 0
              ELSE OpKinds = <<"get">>

\* The count succeeded, the fetch failed: an error result without the count.
C18_Witness ==
    /\ call.pc = "done" /\ call.fault = "database"
    /\ call.aggregateCount >= 1
    /\ OpKinds = <<"count", "get">>
    /\ call.result.isError
    /\ call.result.content[1].text.aggregate = -1

\* The fetch of the call's query, as an entry of dbOps.
FetchOp == DbOp("get", call.query)
InQuery == call.name = "query_firestore" /\ call.pc \in {"awaitCount", "awaitFetch", "done"}
                                         /\ call.fault # "validation"

\* C19: within one query_firestore invocation the database operations are
\* strictly sequential: when aggregation.count is requested exactly one
\* count is issued and completes before the fetch is issued; the fetch is
\* then always executed, exactly once; when count is not requested (absent
\* or false) no count is issued at all.
C19_CountThenFetch ==
    /\ [](InQuery =>
            LET wanted == call.rawArgs.aggregation.kind = "object" /\ call.rawArgs.aggregation.hasCount
                             /\ call.rawArgs.aggregation.count \notin Falsy
            IN  /\ call.pc = "awaitCount" => wanted /\ OpKinds = <<"count">> /\ call.aggregateCount = -1
                /\ call.pc = "awaitFetch" =>
                      IF wanted THEN OpKinds = <<"count", "get">> /\ call.aggregateCount >= 0
                      ELSE OpKinds = <<"get">>
                /\ call.pc = "done" =>
                      IF ~wanted THEN OpKinds = <<"get">>
                      ELSE IF call.aggregateCount >= 0 THEN OpKinds = <<"count", "get">>
                      ELSE OpKinds = <<"count">> /\ call.fault = "database"
                /\ \A k \in DOMAIN dbOps : dbOps[k].query = call.query)
    /\ [][(call.pc = "awaitCount" /\ call'.pc # "awaitCount") =>
              \/ call'.pc = "awaitFetch" /\ call'.aggregateCount >= 0 /\ dbOps' = Append(dbOps, FetchOp)
              \/ call'.pc = "done" /\ call'.fault = "database" /\ dbOps' = dbOps]_vars
    /\ [][(call.pc = "awaitFetch") => dbOps' = dbOps \/ call'.pc = "idle"]_vars

\* A call that asked for the count ended after one count and one fetch.
C19_Witness ==
    /\ Finished("query_firestore")
    /\ OpKinds = <<"count", "get">>
    /\ ResultText.aggregate >= 1
    /\ ResultText.head.idx >= 1


(***************************************************************************)
(* Concurrent calls.                                                       *)
(***************************************************************************)
\* The same invocation run alone on a fresh executor, its awaited operations
\* ending as oks says.
RECURSIVE SoloSteps(_, _, _)
SoloSteps(run, db, oks) ==
    IF oks = <<>> THEN run
    ELSE LET ok == Head(oks)
             next == CASE run.call.pc = "awaitList" -> ListStep(run, db, ok)
                       [] run.call.pc = "awaitSample" -> SampleStep(run, db, ok, NewAccumulator)
                       [] run.call.pc = "awaitCount" -> CountStep(run, db, ok)
                       [] run.call.pc = "awaitFetch" -> FetchStep(run, db, ok)
                       [] OTHER -> run
         IN  SoloSteps(next, db, Tail(oks))
SoloRun(db, name, rawArgs, oks) ==
    SoloSteps(InvokeStep(Run(IdleCall, <<>>), name, rawArgs), db, oks)
InFlight(i) == pool[i].call.pc # "idle"

\* C20: whatever other calls are in flight or have ended on the same executor,
\* a call is, at every step, exactly where it is when it runs alone against
\* the same database with the same outcomes of its own operations: the same
\* operations issued, the same position, and in the end the same result.
C20_IndependentCalls ==
    \A i \in Slots :
        InFlight(i) =>
            Run(pool[i].call, pool[i].dbOps)
                = SoloRun(firestore, pool[i].call.name, pool[i].call.rawArgs, pool[i].oks)

\* Two inspections of the same collection with different sample sizes have both
\* ended on the executor, with different schema reports.
C20_Witness ==
    \E i, j \in Slots :
        /\ i # j
        /\ pool[i].call.pc = "done" /\ pool[j].call.pc = "done"
        /\ pool[i].call.name = "inspect_collection_schema"
        /\ pool[j].call.name = "inspect_collection_schema"
        /\ pool[i].call.fault = "" /\ pool[j].call.fault = ""
        /\ pool[i].call.result # pool[j].call.result
        /\ C20_IndependentCalls


(***************************************************************************)
(* Frame of the executor on the database.                                  *)
(***************************************************************************)
\* C21: the executor only reads.  Every operation an invocation issues is a
\* listCollections, a count or a get, and no step of any invocation, with
\* valid, invalid or unknown-tool input, changes the contents of the database.
C21_ReadOnly ==
    /\ [](\A k \in DOMAIN dbOps : dbOps[k].op \in ReadOps)
    /\ [][firestore' = firestore]_vars

\* A counting query over a non-empty collection has ended: a count and a get
\* were issued, and the collection still holds its documents.
C21_Witness ==
    /\ call.pc = "done" /\ call.name = "query_firestore" /\ call.fault = ""
    /\ OpKinds = <<"count", "get">>
    /\ "users" \in DOMAIN firestore /\ Len(firestore["users"]) >= 2


(***************************************************************************)
(* The session protocol of the SSE server.                                 *)
(***************************************************************************)
\* The session ids a request names: the header when it is not blank, else the
\* sessionId query parameter (its first value when it is repeated).
Named(req) ==
    LET q == req.query
        first == IF q.kind \in {"string", "array"} /\ q.items # <<>> THEN q.items[1] ELSE Undefined
    IN  IF req.header.t = "string" /\ req.header.s \notin BlankStrings THEN {Trim(req.header.s)}
        ELSE IF first.t = "string" /\ first.s \notin BlankStrings THEN {Trim(first.s)}
        ELSE {}
Answered == reply' # reply /\ reply'.req.method \in {"POST", "DELETE"}

\* C22: a session is in the map as soon as its connect has succeeded; a POST
\* or DELETE that names no session id is answered 400, one that names an id
\* not in the map 404; a DELETE that names an id in the map removes it, and
\* its answer, given after the transport was closed, is 204; an id removed by
\* DELETE is never in the map again, so every later POST or DELETE naming it
\* is answered 404.
C22_SessionProtocol ==
    /\ [](sessions \cap deleted = {})
    /\ [][/\ \A id \in SessionIds :
                (transports[id].phase = "connecting" /\ transports'[id].phase = "connected")
                    => id \in sessions'
          /\ (Answered /\ closing' = closing) =>
                /\ Named(reply'.req) = {} => reply'.status = 400
                /\ (Named(reply'.req) # {} /\ Named(reply'.req) \cap sessions = {})
                      => reply'.status = 404
                /\ Named(reply'.req) \cap deleted # {} => reply'.status = 404
                /\ Named(reply'.req) \cap sessions # {}
                      => reply'.req.method = "POST" /\ reply'.status \in {ByTransport, 500}
          /\ (Answered /\ closing' # closing) =>
                /\ reply'.req \in closing /\ reply'.req.method = "DELETE"
                /\ reply'.status = 204
          /\ \A req \in closing' \ closing :
                /\ req.method = "DELETE"
                /\ Named(req) \subseteq sessions /\ Named(req) # {}
                /\ Named(req) \cap sessions' = {}
                /\ deleted' = deleted \cup Named(req)
          /\ deleted' # deleted => closing' # closing
         ]_vars

\* A session was removed by DELETE, and a later request naming it in the
\* query parameter has been answered 404.
C22_Witness ==
    /\ reply.status = 404
    /\ reply.req.header = Undefined
    /\ Named(reply.req) \cap deleted # {}
    /\ closing = {}

\* C28: every session id in the map belongs to a transport whose connect has
\* succeeded, which has not closed, and which no DELETE has removed.
C28_OnlyLiveSessions ==
    \A id \in sessions :
        /\ transports[id].phase = "connected"
        /\ ~transports[id].closed
        /\ id \notin deleted


(***************************************************************************)
(* The lazy database handle.                                               *)
(***************************************************************************)
\* The variable holds a service account that initialization accepts.
Usable(e) == e.kind = "object" /\ e.projectId.t = "string" /\ e.projectId.s \notin BlankStrings
Called == got' # got

\* C23: at most one handle is ever constructed, and the cache holds nothing or
\* that handle; a call that succeeds returns that one handle; a call made
\* while the cache is empty initializes: with a usable variable it constructs
\* the handle, otherwise it throws, constructs nothing and leaves the cache
\* empty, so that the next call initializes again.
C23_LazySingleton ==
    /\ [](/\ Len(constructed) <= 1
          /\ cachedFirestore = NoHandle <=> constructed = <<>>
          /\ cachedFirestore # NoHandle => constructed = <<cachedFirestore>>)
    /\ [][Called =>
            /\ got'.err = NoError => got'.value # NoHandle /\ constructed' = <<got'.value>>
            /\ got'.err # NoError =>
                  /\ cachedFirestore = NoHandle /\ cachedFirestore' = NoHandle
                  /\ constructed' = <<>>
            /\ cachedFirestore = NoHandle => (got'.err = NoError <=> Usable(env))
            /\ cachedFirestore # NoHandle => got'.err = NoError /\ got'.value = cachedFirestore
         ]_vars

\* The handle made for project p1 is cached and was returned by the last
\* call, while the variable holds no usable account any more.
C23_Witness ==
    /\ got.err = NoError
    /\ got.value = cachedFirestore
    /\ cachedFirestore.projectId = "p1"
    /\ ~Usable(env)


(***************************************************************************)
(* Validation and database access.                                         *)
(***************************************************************************)
\* The payload of the call is invalid for the tool called.
QueryInvalid ==
    \/ ~call.rawArgs.isObj
    \/ NotAField(call.rawArgs.collectionPath)
    \/ ~FiltersValid
    \/ ~RestValid
InspectInvalid ==
    \/ ~call.rawArgs.isObj
    \/ NotAField(call.rawArgs.collectionPath)
    \/ ~(call.rawArgs.sampleSize = Undefined \/ PositiveInteger(call.rawArgs.sampleSize))

\* C24: a call of inspect_collection_schema or query_firestore whose payload
\* is invalid in any way has, from its first step on, ended with an error
\* result and issued no database operation; and whenever a call ends in a
\* validation error, no operation was issued.
C24_ValidationFirst ==
    /\ (call.name = "query_firestore" /\ QueryInvalid) =>
          call.pc = "done" /\ call.result.isError /\ call.fault = "validation" /\ dbOps = <<>>
    /\ (call.name = "inspect_collection_schema" /\ InspectInvalid) =>
          call.pc = "done" /\ call.result.isError /\ call.fault = "validation" /\ dbOps = <<>>
    /\ call.fault = "validation" => dbOps = <<>>

\* A query whose filters, orderBy and limit are valid but whose aggregation
\* is not has ended: rejected, nothing issued.
C24_Witness ==
    /\ call.pc = "done" /\ call.name = "query_firestore"
    /\ call.rawArgs.isObj /\ ~NotAField(call.rawArgs.collectionPath)
    /\ FiltersValid /\ OrderByValid /\ LimitValid /\ ~AggregationValid
    /\ call.result.isError /\ dbOps = <<>>


(***************************************************************************)
(* The order of the query builder's operations.                            *)
(***************************************************************************)
\* The clauses the payload asks for, in the order the builder is to apply
\* them.
ClausesAsked ==
    LET fs == call.rawArgs.filters.items
        os == call.rawArgs.orderBy.items
    IN  [i \in DOMAIN fs |-> QueryOp("where", Trim(fs[i].field.s), fs[i].operator.s, fs[i].value, 0)]
        \o [i \in DOMAIN os |-> QueryOp("orderBy", Trim(os[i].field.s), os[i].direction.s, Undefined, 0)]
        \o (IF call.rawArgs.limit = Undefined THEN <<>>
            ELSE <<QueryOp("limit", "", "", Undefined, call.rawArgs.limit.n)>>)

\* C25: the built query holds one where per filter in input order, then one
\* orderBy per order clause in input order, then the limit if one was given:
\* no orderBy precedes a where and nothing follows the limit; and the count
\* and the fetch are both issued on that finished query.
C25_BuilderOrder ==
    (InQuery /\ call.fault # "validation") =>
        LET ops == call.query.ops
        IN  /\ call.query.coll = Trim(call.rawArgs.collectionPath.s)
            /\ ops = ClausesAsked
            /\ \A i, j \in DOMAIN ops :
                  i < j => /\ ops[i].k = "orderBy" => ops[j].k # "where"
                           /\ ops[i].k # "limit"
            /\ \A k \in DOMAIN dbOps : dbOps[k].query = call.query

\* A query with two filters, an order clause and a limit has ended.
C25_Witness ==
    /\ InQuery /\ call.pc = "done" /\ call.fault = ""
    /\ Len(OpsOf(call.query, "where")) = 2
    /\ Len(OpsOf(call.query, "orderBy")) >= 1
    /\ Len(OpsOf(call.query, "limit")) = 1


(***************************************************************************)
(* Termination of the sanitizer.                                           *)
(***************************************************************************)
\* C26: on every finite value graph, cyclic ones included, the recursion of
\* sanitizeFirestoreValue ends of itself: no call ends because the call stack
\* was exhausted.
C26_Terminates == saPc = "done" => saOut.err # StackOverflow


(***************************************************************************)
(* The id of a rendered document.                                          *)
(***************************************************************************)
\* C27: in the result of a query, the object rendered for each fetched
\* document holds under the key id the id the document has in the database,
\* whatever fields the document has.
C27_IdTraceable ==
    (call.pc = "done" /\ call.name = "query_firestore" /\ ~call.result.isError) =>
        LET fetched == RunQuery(firestore, call.query)
        IN  /\ Len(ResultText.docs) = Len(fetched)
            /\ \A i \in DOMAIN fetched : Entry(<<"id">>, Str(fetched[i].id)) \in ResultText.docs[i]


(***************************************************************************)
(* The Streamable HTTP entry point and its one-time connect.               *)
(***************************************************************************)
\* C29: transport.handleRequest is called for a request only in a step taken
\* after the connect has resolved, so no request is with the transport while
\* the connect is pending or after it has failed; and after a failed connect
\* every request that is answered is answered 500 with the JSON-RPC error
\* code -32603.
C29_ConnectFirst ==
    /\ [](\A i \in RequestSlots :
            /\ requests[i].handed => serverReady = "resolved"
            /\ (serverReady = "rejected" /\ requests[i].pc = "done") =>
                  /\ requests[i].status = 500 /\ requests[i].code = InternalError
                  /\ ~requests[i].handed)
    /\ [][\A i \in RequestSlots :
            (requests'[i].handed /\ ~requests[i].handed) => serverReady = "resolved"]_vars

\* The connect has failed and every request in progress, a POST and a DELETE
\* among them, has been answered 500.
C29_Witness ==
    /\ serverReady = "rejected"
    /\ \A i \in RequestSlots : requests[i].pc = "done" /\ requests[i].status = 500
    /\ \E i, j \in RequestSlots : requests[i].method = "POST" /\ requests[j].method = "DELETE"

====
